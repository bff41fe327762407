---------------------------- MODULE CredentialsProofs --------------------------
(***************************************************************************)
(* What Credentials leaves behind, for any contexts, nested to any depth,  *)
(* and any tokens.                                                         *)
(***************************************************************************)

EXTENDS Credentials, TLAPS

(* The path is away, and it is for frame f to put it back. *)
Owes(f, p) ==
  \/ f.phase = "flag" /\ p = f.context.files[f.at]
  \/ f.phase = "back" /\ p \in f.moved /\ \E k \in f.at..Len(f.context.files) : f.context.files[k] = p
  \/ f.phase # "back" /\ p \in f.moved

(* Frame f has set the variable and will reset it. *)
Holds(f, v) ==
  \E k \in DOMAIN f.context.items :
    /\ f.context.items[k][1] = v
    /\ \/ f.phase = "set" /\ k < f.at
       \/ f.phase = "body"
       \/ f.phase = "reset" /\ k >= f.at

(* A frame by itself: it has moved paths of its context only, and has an   *)
(* old value for each variable that it holds.                              *)
FrameOK(f) ==
  /\ f.at >= 1
  /\ f.phase = "flag" => f.at <= Len(f.context.files)
  /\ \A p \in f.moved : \E k \in DOMAIN f.context.files : f.context.files[k] = p
  /\ \A v \in Var : Holds(f, v) => v \in DOMAIN f.old

Frames ==
  /\ \A i \in DOMAIN stack : FrameOK(stack[i])
  /\ \A i \in DOMAIN stack : i < Len(stack) => stack[i].phase = "body"

(* A path that is owed is away, and one frame owes it. *)
Owing ==
  \A i \in DOMAIN stack : \A p \in Path :
    Owes(stack[i], p) =>
      /\ p \in hidden /\ p \notin stuck
      /\ \A j \in DOMAIN stack : Owes(stack[j], p) => j = i

(* No path is away that nobody owes. *)
AllOwed ==
  \A p \in hidden : p \in stuck \/ \E i \in DOMAIN stack : Owes(stack[i], p)

(* The outermost frame that holds a variable has what it was before; a     *)
(* variable that no frame holds is as it was.                              *)
OldKept ==
  \A v \in Var :
    /\ (\A i \in DOMAIN stack : ~Holds(stack[i], v)) => env[v] = envFound[v]
    /\ \A i \in DOMAIN stack :
         Holds(stack[i], v) /\ (\A j \in 1..(i - 1) : ~Holds(stack[j], v))
           => stack[i].old[v] = envFound[v]

Tokens ==
  /\ Requesting("download") \/ Requesting("write") => tokenfile[name] = "none"
  /\ Requesting("flag") => tokenfile[name] = "made"
  /\ \A t \in created : tokenfile[t] # Found
  /\ stage \in {"request", "tests", "clean"} /\ "token" \notin torn =>
       \A t \in Names : tokenfile[t] = "made" => t \in created \/ (Requesting("flag") /\ t = name)
  /\ stage = "done" /\ "token" \notin torn => \A t \in Names : tokenfile[t] # "made"

IInv == TypeOK /\ Frames /\ Owing /\ ("context" \notin torn => AllOwed /\ OldKept)
        /\ Tokens /\ (torn # {} => interrupted)

--------------------------------------------------------------------------------
(* Replacing the last frame. *)
LEMMA PutFacts ==
  ASSUME NEW s \in Seq(Frame), s # <<>>, NEW f \in Frame,
         NEW t, t = [s EXCEPT ![Len(s)] = f]
  PROVE  /\ t \in Seq(Frame) /\ Len(t) = Len(s) /\ t # <<>> /\ t[Len(t)] = f
         /\ \A i \in DOMAIN s : i # Len(s) => t[i] = s[i]
  OBVIOUS

LEMMA InitInv == Init => IInv
<1> SUFFICES ASSUME Init PROVE IInv
  OBVIOUS
<1>1. TypeOK
  <2>1. env \in [Var -> Setting] /\ tokenfile \in [Names -> TokenFile]
    BY DEF Init, TokenFile, Setting
  <2>2. stack \in Seq(Frame) /\ Len(stack) <= MaxDepth
    BY TokenAssumption DEF Init
  <2>3. request.token \in 1..(Len(Token) + 1) /\ request.step = "exists"
    BY TokenAssumption DEF Init
  <2>4. request \in [token : 1..(Len(Token) + 1),
                     step : {"exists", "download", "write", "flag", "parse"}]
    BY <2>3, TokenAssumption DEF Init
  <2> QED
    BY <2>1, <2>2, <2>4 DEF Init, TypeOK
<1>2. Frames /\ Owing /\ AllOwed /\ OldKept
  <2>1. DOMAIN stack = {}
    BY DEF Init
  <2>2. Frames
    BY <2>1 DEF Frames
  <2>3. Owing
    BY <2>1 DEF Owing
  <2>4. AllOwed
    BY DEF Init, AllOwed
  <2>5. OldKept
    BY <2>1 DEF Init, OldKept
  <2> QED
    BY <2>2, <2>3, <2>4, <2>5
<1>3. Tokens
  <2>1. stage = "request" /\ request.step = "exists" /\ created = {}
    BY DEF Init
  <2>2. \A t \in Names : tokenfile[t] # "made"
    BY DEF Init, Found
  <2> QED
    BY <2>1, <2>2 DEF Tokens, Requesting
<1> QED
  BY <1>1, <1>2, <1>3 DEF IInv, Init

(* The types of the last frame. *)
LEMMA TopType ==
  ASSUME TypeOK, stack # <<>>
  PROVE  /\ Top \in Frame /\ Len(stack) \in Nat \ {0} /\ Len(stack) \in DOMAIN stack
         /\ Files \in Seq(Path) /\ Items \in Seq(Var \X (Value \cup {Unset}))
         /\ Top.at \in Nat /\ Top.moved \subseteq Path /\ Top.phase \in Phase
<1>1. Len(stack) \in Nat \ {0} /\ Len(stack) \in DOMAIN stack /\ Top \in Frame
  BY DEF TypeOK, Top
<1>2. Top.context \in Context
  BY <1>1 DEF Frame
<1> QED
  BY <1>1, <1>2, ContextAssumption DEF Frame, Files, Items

--------------------------------------------------------------------------------
(* A step that only replaces the last frame, by f. The invariant needs to  *)
(* be looked at for Top and f alone.                                       *)
LEMMA FramesStep ==
  ASSUME TypeOK, Frames, stack # <<>>, NEW f \in Frame, Put(f), FrameOK(f)
  PROVE  Frames'
<1>1. Len(stack') = Len(stack) /\ stack'[Len(stack')] = f /\ stack' \in Seq(Frame)
      /\ \A i \in DOMAIN stack : i # Len(stack) => stack'[i] = stack[i]
  BY PutFacts DEF TypeOK, Put
<1>2. DOMAIN stack' = DOMAIN stack
  BY <1>1 DEF TypeOK
<1> QED
  BY <1>1, <1>2 DEF Frames, TypeOK

LEMMA OwingStep ==
  ASSUME TypeOK, Owing, stack # <<>>, NEW f \in Frame, Put(f),
         \A p \in Path : Owes(f, p) =>
            p \in hidden' /\ p \notin stuck' /\ (Owes(Top, p) \/ p \notin hidden),
         \A p \in Path : p \in hidden /\ p \notin hidden' => Owes(Top, p),
         \A p \in stuck' : p \in stuck \/ Owes(Top, p)
  PROVE  Owing'
<1>1. Len(stack') = Len(stack) /\ stack'[Len(stack)] = f /\ stack' \in Seq(Frame)
      /\ \A i \in DOMAIN stack : i # Len(stack) => stack'[i] = stack[i]
  BY PutFacts DEF TypeOK, Put
<1>2. DOMAIN stack' = DOMAIN stack /\ Len(stack) \in DOMAIN stack
  BY <1>1 DEF TypeOK
<1>3. SUFFICES ASSUME NEW i \in DOMAIN stack, NEW p \in Path, Owes(stack'[i], p)
               PROVE  /\ p \in hidden' /\ p \notin stuck'
                      /\ \A j \in DOMAIN stack : Owes(stack'[j], p) => j = i
  BY <1>2 DEF Owing, Owes
<1>4. CASE i = Len(stack)
  <2>1. p \in hidden' /\ p \notin stuck' /\ (Owes(Top, p) \/ p \notin hidden)
    BY <1>1, <1>3, <1>4
  <2>2. ASSUME NEW j \in DOMAIN stack, j # i, Owes(stack'[j], p)
        PROVE  FALSE
    <3>1. Owes(stack[j], p)
      BY <1>1, <1>4, <2>2
    <3> QED
      BY <1>2, <1>4, <2>1, <2>2, <3>1 DEF Owing, Top
  <2> QED
    BY <2>1, <2>2
<1>5. CASE i # Len(stack)
  <2>1. Owes(stack[i], p)
    BY <1>1, <1>3, <1>5
  <2>2. p \in hidden /\ p \notin stuck /\ ~Owes(Top, p)
    BY <1>2, <1>5, <2>1 DEF Owing, Top
  <2>3. p \in hidden' /\ p \notin stuck'
    BY <2>2
  <2>4. ASSUME NEW j \in DOMAIN stack, j # i, Owes(stack'[j], p)
        PROVE  FALSE
    <3>1. j # Len(stack)
      BY <1>1, <2>2, <2>4
    <3>2. Owes(stack[j], p)
      BY <1>1, <2>4, <3>1
    <3> QED
      BY <2>1, <2>4, <3>2 DEF Owing
  <2> QED
    BY <2>3, <2>4
<1> QED
  BY <1>4, <1>5

LEMMA AllOwedStep ==
  ASSUME TypeOK, AllOwed, stack # <<>>, NEW f \in Frame, Put(f), stuck \subseteq stuck',
         \A p \in hidden' : \/ p \in hidden /\ ~Owes(Top, p)
                          \/ p \in stuck'
                          \/ Owes(f, p)
  PROVE  AllOwed'
<1>1. Len(stack') = Len(stack) /\ stack'[Len(stack)] = f /\ stack' \in Seq(Frame)
      /\ \A i \in DOMAIN stack : i # Len(stack) => stack'[i] = stack[i]
  BY PutFacts DEF TypeOK, Put
<1>2. DOMAIN stack' = DOMAIN stack /\ Len(stack) \in DOMAIN stack
  BY <1>1 DEF TypeOK
<1>3. SUFFICES ASSUME NEW p \in hidden', p \notin stuck'
               PROVE  \E i \in DOMAIN stack : Owes(stack'[i], p)
  BY <1>2 DEF AllOwed, Owes
<1>4. CASE Owes(f, p)
  BY <1>1, <1>2, <1>4
<1>5. CASE p \in hidden /\ ~Owes(Top, p)
  <2>1. PICK i \in DOMAIN stack : Owes(stack[i], p)
    BY <1>3, <1>5 DEF AllOwed
  <2> QED
    BY <1>1, <1>5, <2>1 DEF Top
<1> QED
  BY <1>3, <1>4, <1>5

LEMMA OldKeptStep ==
  ASSUME TypeOK, OldKept, stack # <<>>, NEW f \in Frame, Put(f), UNCHANGED envFound,
         \A v \in Var :
           /\ Holds(f, v) /\ Holds(Top, v) => f.old[v] = Top.old[v]
           /\ Holds(f, v) /\ ~Holds(Top, v) => f.old[v] = env[v]
           /\ ~Holds(f, v) /\ Holds(Top, v) => env'[v] = Top.old[v]
           /\ ~Holds(f, v) /\ ~Holds(Top, v) => env'[v] = env[v]
  PROVE  OldKept'
<1> DEFINE n == Len(stack)
<1>1. Len(stack') = n /\ stack'[n] = f /\ stack' \in Seq(Frame)
      /\ \A i \in DOMAIN stack : i # n => stack'[i] = stack[i]
  BY PutFacts DEF TypeOK, Put
<1>2. DOMAIN stack' = 1..n /\ DOMAIN stack = 1..n /\ n \in 1..n /\ n \in Nat
  BY <1>1 DEF TypeOK
<1>3. SUFFICES ASSUME NEW v \in Var
               PROVE  /\ (\A i \in 1..n : ~Holds(stack'[i], v)) => env'[v] = envFound[v]
                      /\ \A i \in 1..n :
                           Holds(stack'[i], v) /\ (\A j \in 1..(i - 1) : ~Holds(stack'[j], v))
                             => stack'[i].old[v] = envFound[v]
  BY <1>2 DEF OldKept, Holds
<1> HIDE DEF n
<1>4. CASE \E k \in 1..n : k # n /\ Holds(stack[k], v)
  <2>1. PICK k \in 1..n : k # n /\ Holds(stack[k], v)
    BY <1>4
  <2>2. Holds(stack'[k], v) /\ k < n
    BY <1>1, <1>2, <2>1
  <2>3. ASSUME NEW i \in 1..n, Holds(stack'[i], v), \A j \in 1..(i - 1) : ~Holds(stack'[j], v)
        PROVE  stack'[i].old[v] = envFound[v]
    <3>1. i <= k
      BY <1>2, <2>2, <2>3
    <3>2. stack'[i] = stack[i] /\ \A j \in 1..(i - 1) : stack'[j] = stack[j]
      BY <1>1, <1>2, <2>2, <3>1
    <3>3. \A j \in 1..(i - 1) : ~Holds(stack[j], v)
      BY <2>3, <3>2
    <3> QED
      BY <1>2, <2>3, <3>2, <3>3 DEF OldKept
  <2> QED
    BY <2>2, <2>3
<1>5. CASE \A k \in 1..n : k # n => ~Holds(stack[k], v)
  <2>1. \A k \in 1..n : k # n => ~Holds(stack'[k], v)
    BY <1>1, <1>2, <1>5
  <2>2. \A j \in 1..(n - 1) : ~Holds(stack[j], v)
    BY <1>2, <1>5
  <2>3. ~Holds(Top, v) => env[v] = envFound[v]
    BY <1>2, <1>5 DEF OldKept, Top, n
  <2>4. Holds(Top, v) => Top.old[v] = envFound[v]
    BY <1>2, <2>2 DEF OldKept, Top, n
  <2>5. Holds(f, v) => f.old[v] = envFound[v]
    BY <2>3, <2>4
  <2>6. ~Holds(f, v) => env'[v] = envFound[v]
    BY <2>3, <2>4
  <2> QED
    BY <1>1, <1>2, <2>1, <2>5, <2>6
<1> QED
  BY <1>4, <1>5

--------------------------------------------------------------------------------
(* The steps of a context.                                                 *)

Core == TypeOK /\ Frames /\ Owing /\ ("context" \notin torn => AllOwed /\ OldKept)

LEMMA TopOK ==
  ASSUME TypeOK, Frames, stack # <<>>
  PROVE  FrameOK(Top) /\ Top.at >= 1
  BY TopType DEF Frames, FrameOK, Top

(* The rest of the types, when a step has replaced the last frame. *)
LEMMA TypeStep ==
  ASSUME TypeOK, stack # <<>>, NEW f \in Frame, Put(f), env' \in [Var -> Setting],
         hidden' \subseteq present, stuck' \subseteq hidden', raising' \in BOOLEAN,
         UNCHANGED others
  PROVE  TypeOK'
<1>1. stack' \in Seq(Frame) /\ Len(stack') = Len(stack)
  BY PutFacts DEF TypeOK, Put
<1> QED
  BY <1>1 DEF TypeOK, others, tokenVars, foundVars

(* One step of the last frame, which becomes f. *)
LEMMA CoreStep ==
  ASSUME Core, TypeOK', stack # <<>>, NEW f \in Frame, Put(f), FrameOK(f), UNCHANGED envFound,
         \A p \in Path : Owes(f, p) =>
            p \in hidden' /\ p \notin stuck' /\ (Owes(Top, p) \/ p \notin hidden),
         \A p \in Path : p \in hidden /\ p \notin hidden' => Owes(Top, p),
         \A p \in stuck' : p \in stuck \/ Owes(Top, p),
         "context" \notin torn' =>
           /\ "context" \notin torn /\ stuck \subseteq stuck'
           /\ \A p \in hidden' : \/ p \in hidden /\ ~Owes(Top, p)
                               \/ p \in stuck'
                               \/ Owes(f, p)
           /\ \A v \in Var :
                /\ Holds(f, v) /\ Holds(Top, v) => f.old[v] = Top.old[v]
                /\ Holds(f, v) /\ ~Holds(Top, v) => f.old[v] = env[v]
                /\ ~Holds(f, v) /\ Holds(Top, v) => env'[v] = Top.old[v]
                /\ ~Holds(f, v) /\ ~Holds(Top, v) => env'[v] = env[v]
  PROVE  Core'
<1>1. Frames'
  BY FramesStep DEF Core
<1>2. Owing'
  BY OwingStep DEF Core
<1>3. "context" \notin torn' => AllOwed'
  BY AllOwedStep DEF Core
<1>4. "context" \notin torn' => OldKept'
  BY OldKeptStep DEF Core
<1> QED
  BY <1>1, <1>2, <1>3, <1>4 DEF Core

LEMMA MoveAsideCore == ASSUME Core, MoveAside PROVE Core'
<1>1. stack # <<>> /\ Top.phase = "move" /\ UNCHANGED <<env, raising, stuck, others>>
  BY DEF MoveAside, In
<1>2. UNCHANGED <<torn, envFound, present>> /\ TypeOK /\ Top \in Frame /\ FrameOK(Top)
  BY <1>1, TopType, TopOK DEF others, foundVars, Core
<1>3. /\ stuck \subseteq hidden /\ hidden \subseteq present /\ raising \in BOOLEAN
      /\ env \in [Var -> Setting]
  BY <1>2 DEF TypeOK
<1>4. \A p \in Path : Owes(Top, p) => p \in hidden /\ p \notin stuck
  BY <1>1, TopType DEF Core, Owing, Top
<1>5. CASE Top.at > Len(Files) /\ Goto("set") /\ UNCHANGED hidden
  <2> DEFINE f == [Top EXCEPT !.phase = "set", !.at = 1]
  <2>1. f \in Frame /\ Put(f) /\ f.phase = "set" /\ f.at = 1 /\ f.context = Top.context
        /\ f.moved = Top.moved /\ f.old = Top.old
    <3>1. "set" \in Phase /\ 1 \in Nat /\ Top.moved \in SUBSET Path
      BY <1>2, <1>1, TopType DEF Phase
    <3>2. Put(f)
      BY <1>5 DEF Goto
    <3> QED
      BY <1>2, <3>1, <3>2 DEF Frame
  <2> HIDE DEF f
  <2>2. \A p : Owes(f, p) <=> Owes(Top, p)
    BY <1>1, <2>1 DEF Owes
  <2>3. Items \in Seq(Var \X (Value \cup {Unset})) /\ Items = f.context.items
    BY <1>1, <1>2, <2>1, TopType DEF Items
  <2>4. \A v : ~Holds(f, v) /\ ~Holds(Top, v)
    BY <1>1, <2>1, <2>3 DEF Holds
  <2>5. FrameOK(f)
    BY <1>2, <2>1, <2>4 DEF FrameOK
  <2>6. TypeOK'
    BY <1>1, <1>2, <1>3, <1>5, <2>1, TypeStep
  <2> QED
    BY <1>1, <1>2, <1>3, <1>4, <1>5, <2>1, <2>2, <2>4, <2>5, <2>6, CoreStep
<1>6. CASE Top.at <= Len(Files) /\ Files[Top.at] \notin present \ hidden /\ Step
           /\ UNCHANGED hidden
  <2> DEFINE f == [Top EXCEPT !.at = @ + 1]
  <2>1. f \in Frame /\ Put(f) /\ f.phase = "move" /\ f.at = Top.at + 1 /\ f.context = Top.context
        /\ f.moved = Top.moved /\ f.old = Top.old
    <3>1. "move" \in Phase /\ Top.at + 1 \in Nat /\ Top.moved \in SUBSET Path
      BY <1>2, <1>1, TopType DEF Phase
    <3>2. Put(f)
      BY <1>6 DEF Step
    <3> QED
      BY <1>1, <1>2, <3>1, <3>2 DEF Frame
  <2> HIDE DEF f
  <2>2. \A p : Owes(f, p) <=> Owes(Top, p)
    BY <1>1, <2>1 DEF Owes
  <2>3. \A v : ~Holds(f, v) /\ ~Holds(Top, v)
    BY <1>1, <2>1 DEF Holds
  <2>4. FrameOK(f)
    BY <1>1, <1>2, <2>1, <2>3, TopType DEF FrameOK
  <2>5. TypeOK'
    BY <1>1, <1>2, <1>3, <1>6, <2>1, TypeStep
  <2> QED
    BY <1>1, <1>2, <1>3, <1>4, <1>6, <2>1, <2>2, <2>3, <2>4, <2>5, CoreStep
<1>7. CASE /\ Top.at <= Len(Files) /\ Files[Top.at] \in present \ hidden
           /\ hidden' = hidden \cup {Files[Top.at]}
           /\ Put([Top EXCEPT !.phase = "flag"])
  <2> DEFINE f == [Top EXCEPT !.phase = "flag"]
  <2>1. f \in Frame /\ Put(f) /\ f.phase = "flag" /\ f.at = Top.at /\ f.context = Top.context
        /\ f.moved = Top.moved /\ f.old = Top.old
    <3>1. "flag" \in Phase /\ Top.at \in Nat /\ Top.moved \in SUBSET Path
      BY <1>2, <1>1, TopType DEF Phase
    <3> QED
      BY <1>2, <1>7, <3>1 DEF Frame
  <2> HIDE DEF f
  <2>2. \A p : Owes(f, p) <=> Owes(Top, p) \/ p = Files[Top.at]
    BY <1>1, <2>1 DEF Owes, Files
  <2>3. \A v : ~Holds(f, v) /\ ~Holds(Top, v)
    BY <1>1, <2>1 DEF Holds
  <2>4. FrameOK(f)
    BY <1>1, <1>2, <1>7, <2>1, <2>3 DEF FrameOK, Files
  <2>5. TypeOK'
    BY <1>1, <1>2, <1>3, <1>7, <2>1, TypeStep
  <2> QED
    BY <1>1, <1>2, <1>3, <1>4, <1>7, <2>1, <2>2, <2>3, <2>4, <2>5, CoreStep
<1> QED
  BY <1>5, <1>6, <1>7 DEF MoveAside

LEMMA NoteMovedCore == ASSUME Core, NoteMoved PROVE Core'
<1>1. stack # <<>> /\ Top.phase = "flag" /\ UNCHANGED <<env, hidden, raising, stuck, others>>
  BY DEF NoteMoved, In
<1>2. UNCHANGED <<torn, envFound, present>> /\ TypeOK /\ Top \in Frame /\ FrameOK(Top)
  BY <1>1, TopType, TopOK DEF others, foundVars, Core
<1>3. /\ stuck \subseteq hidden /\ hidden \subseteq present /\ raising \in BOOLEAN
      /\ env \in [Var -> Setting]
  BY <1>2 DEF TypeOK
<1>4. \A p \in Path : Owes(Top, p) => p \in hidden /\ p \notin stuck
  BY <1>1, TopType DEF Core, Owing, Top
<1>5. Top.at \in DOMAIN Files /\ Files[Top.at] \in Path /\ Top.at \in Nat
  BY <1>1, <1>2, TopType DEF FrameOK, Files, Core
<1> DEFINE f == [Top EXCEPT !.moved = @ \cup {Files[Top.at]}, !.phase = "move", !.at = @ + 1]
<1>6. f \in Frame /\ Put(f) /\ f.phase = "move" /\ f.at = Top.at + 1 /\ f.context = Top.context
      /\ f.moved = Top.moved \cup {Files[Top.at]} /\ f.old = Top.old
  <2>1. "move" \in Phase /\ Top.at + 1 \in Nat /\ Top.moved \cup {Files[Top.at]} \in SUBSET Path
    BY <1>1, <1>2, <1>5, TopType DEF Phase
  <2>2. Put(f)
    BY DEF NoteMoved
  <2> QED
    BY <1>2, <2>1, <2>2 DEF Frame
<1> HIDE DEF f
<1>7. \A p : Owes(f, p) <=> Owes(Top, p)
  BY <1>1, <1>6 DEF Owes, Files
<1>8. \A v : ~Holds(f, v) /\ ~Holds(Top, v)
  BY <1>1, <1>6 DEF Holds
<1>9. FrameOK(f)
  BY <1>2, <1>5, <1>6, <1>8 DEF FrameOK, Files
<1>10. TypeOK'
  BY <1>1, <1>2, <1>3, <1>6, TypeStep
<1> QED
  BY <1>1, <1>2, <1>3, <1>4, <1>6, <1>7, <1>8, <1>9, <1>10, CoreStep

LEMMA MoveFailsCore == ASSUME Core, MoveFails PROVE Core'
<1>1. stack # <<>> /\ Top.phase = "move" /\ UNCHANGED <<env, hidden, stuck, others>>
      /\ raising' = TRUE
  BY DEF MoveFails, In
<1>2. UNCHANGED <<torn, envFound, present>> /\ TypeOK /\ Top \in Frame /\ FrameOK(Top)
  BY <1>1, TopType, TopOK DEF others, foundVars, Core
<1>3. /\ stuck \subseteq hidden /\ hidden \subseteq present /\ env \in [Var -> Setting]
  BY <1>2 DEF TypeOK
<1>4. \A p \in Path : Owes(Top, p) => p \in hidden /\ p \notin stuck
  BY <1>1, TopType DEF Core, Owing, Top
<1> DEFINE f == [Top EXCEPT !.phase = "back", !.at = 1]
<1>5. f \in Frame /\ Put(f) /\ f.phase = "back" /\ f.at = 1 /\ f.context = Top.context
      /\ f.moved = Top.moved /\ f.old = Top.old
  <2>1. "back" \in Phase /\ 1 \in Nat /\ Top.moved \in SUBSET Path
    BY <1>1, <1>2, TopType DEF Phase
  <2>2. Put(f)
    BY DEF MoveFails, Goto
  <2> QED
    BY <1>2, <2>1, <2>2 DEF Frame
<1> HIDE DEF f
<1>6. \A p : Owes(f, p) <=> Owes(Top, p)
  BY <1>1, <1>2, <1>5, TopType DEF Owes, FrameOK, Files
<1>7. \A v : ~Holds(f, v) /\ ~Holds(Top, v)
  BY <1>1, <1>5 DEF Holds
<1>8. FrameOK(f)
  BY <1>2, <1>5, <1>7 DEF FrameOK
<1>9. TypeOK'
  BY <1>1, <1>2, <1>3, <1>5, TypeStep
<1> QED
  BY <1>1, <1>2, <1>3, <1>4, <1>5, <1>6, <1>7, <1>8, <1>9, CoreStep
LEMMA SetVarCore == ASSUME Core, SetVar PROVE Core'
<1>1. stack # <<>> /\ Top.phase = "set" /\ UNCHANGED <<hidden, raising, stuck, others>>
  BY DEF SetVar, In
<1>2. UNCHANGED <<torn, envFound, present>> /\ TypeOK /\ Top \in Frame /\ FrameOK(Top)
  BY <1>1, TopType, TopOK DEF others, foundVars, Core
<1>3. /\ stuck \subseteq hidden /\ hidden \subseteq present /\ raising \in BOOLEAN
      /\ env \in [Var -> Setting]
  BY <1>2 DEF TypeOK
<1>4. \A p \in Path : Owes(Top, p) => p \in hidden /\ p \notin stuck
  BY <1>1, TopType DEF Core, Owing, Top
<1>5. /\ Top.context \in Context /\ Top.at \in Nat /\ Top.at >= 1 /\ Top.moved \subseteq Path
      /\ Files \in Seq(Path) /\ Items \in Seq(Var \X (Value \cup {Unset}))
  BY <1>1, <1>2, TopType, TopOK DEF Frame, Core
<1>6. CASE Top.at > Len(Items) /\ Goto("body") /\ UNCHANGED env
  <2> DEFINE f == [Top EXCEPT !.phase = "body", !.at = 1]
  <2>1. f \in Frame /\ Put(f) /\ f.phase = "body" /\ f.at = 1 /\ f.context = Top.context
        /\ f.moved = Top.moved /\ f.old = Top.old
    <3>1. "body" \in Phase /\ 1 \in Nat
      BY DEF Phase
    <3>2. Put(f)
      BY <1>6 DEF Goto
    <3> QED
      BY <1>2, <1>5, <3>1, <3>2 DEF Frame
  <2> HIDE DEF f
  <2>2. \A p : Owes(f, p) <=> Owes(Top, p)
    BY <1>1, <2>1 DEF Owes
  <2>3. \A v : Holds(f, v) <=> Holds(Top, v)
    BY <1>1, <1>5, <1>6, <2>1 DEF Holds, Items
  <2>4. FrameOK(f)
    BY <1>2, <2>1, <2>3 DEF FrameOK
  <2>5. TypeOK'
    BY <1>1, <1>2, <1>3, <1>6, <2>1, TypeStep
  <2> QED
    BY <1>1, <1>2, <1>3, <1>4, <1>6, <2>1, <2>2, <2>3, <2>4, <2>5, CoreStep
<1>7. CASE Top.at <= Len(Items)
  <2> DEFINE key == Items[Top.at][1]
             old == [v \in DOMAIN Top.old \cup {key} |-> IF v = key THEN env[key] ELSE Top.old[v]]
             f == [Top EXCEPT !.at = Top.at + 1, !.old = old]
  <2>1. /\ Put(f) /\ env' = [env EXCEPT ![key] = Items[Top.at][2]]
        /\ Top.at \in DOMAIN Items /\ Top.at + 1 \in Nat
    BY <1>5, <1>7 DEF SetVar
  <2>2. key \in Var /\ Items[Top.at][2] \in Setting /\ env[key] \in Setting
    BY <1>3, <1>5, <2>1 DEF Setting
  <2>3. old \in UNION {[V -> Setting] : V \in SUBSET Var}
    <3>1. PICK V \in SUBSET Var : Top.old \in [V -> Setting]
      BY <1>2 DEF Frame
    <3>2. old \in [V \cup {key} -> Setting] /\ V \cup {key} \in SUBSET Var
      BY <2>2, <3>1
    <3> QED
      BY <3>2
  <2>4. /\ DOMAIN old = DOMAIN Top.old \cup {key} /\ old[key] = env[key]
        /\ \A v \in DOMAIN Top.old : v # key => old[v] = Top.old[v]
    OBVIOUS
  <2> HIDE DEF old
  <2>5. f \in Frame /\ f.phase = "set" /\ f.at = Top.at + 1 /\ f.context = Top.context
        /\ f.moved = Top.moved /\ f.old = old
    BY <1>1, <1>2, <2>1, <2>3 DEF Frame
  <2> HIDE DEF f
  <2>12. \A i, j \in DOMAIN Items : Items[i][1] = Items[j][1] => i = j
    BY <1>5, ContextAssumption DEF Items
  <2>6. \A p : Owes(f, p) <=> Owes(Top, p)
    BY <1>1, <2>5 DEF Owes
  <2>7. \A v : Holds(f, v) <=> Holds(Top, v) \/ v = key
    BY <1>1, <1>5, <2>1, <2>5 DEF Holds, Items
  <2>8. ~Holds(Top, key)
    BY <1>1, <1>5, <2>1, <2>12 DEF Holds, Items
  <2>9. FrameOK(f)
    BY <1>1, <1>2, <1>5, <2>4, <2>5, <2>7 DEF FrameOK
  <2>10. TypeOK'
    <3>1. env' \in [Var -> Setting]
      BY <1>3, <2>1, <2>2
    <3> QED
      BY <1>1, <1>2, <1>3, <2>1, <2>5, <3>1, TypeStep
  <2>11. \A v \in Var :
           /\ Holds(Top, v) => f.old[v] = Top.old[v]
           /\ v = key => f.old[v] = env[v]
           /\ v # key => env'[v] = env[v]
    BY <1>2, <1>3, <2>1, <2>2, <2>4, <2>5, <2>8 DEF FrameOK
  <2> HIDE DEF key
  <2> QED
    BY <1>1, <1>2, <1>3, <1>4, <2>1, <2>5, <2>6, <2>7, <2>8, <2>9, <2>10, <2>11, CoreStep
<1> QED
  BY <1>5, <1>6, <1>7 DEF SetVar

LEMMA BodyEndsCore == ASSUME Core, BodyEnds PROVE Core'
<1>1. stack # <<>> /\ Top.phase = "body" /\ UNCHANGED <<env, hidden, stuck, others>>
  BY DEF BodyEnds, In
<1>2. UNCHANGED <<torn, envFound, present>> /\ TypeOK /\ Top \in Frame /\ FrameOK(Top)
  BY <1>1, TopType, TopOK DEF others, foundVars, Core
<1>3. /\ stuck \subseteq hidden /\ hidden \subseteq present /\ raising' \in BOOLEAN
      /\ env \in [Var -> Setting]
  BY <1>2 DEF TypeOK, BodyEnds
<1>4. \A p \in Path : Owes(Top, p) => p \in hidden /\ p \notin stuck
  BY <1>1, TopType DEF Core, Owing, Top
<1>5. /\ Top.context \in Context /\ Top.at \in Nat /\ Top.at >= 1 /\ Top.moved \subseteq Path
      /\ Files \in Seq(Path) /\ Items \in Seq(Var \X (Value \cup {Unset}))
  BY <1>1, <1>2, TopType, TopOK DEF Frame, Core
<1> DEFINE f == [Top EXCEPT !.phase = "reset", !.at = 1]
<1>6. f \in Frame /\ Put(f) /\ f.phase = "reset" /\ f.at = 1 /\ f.context = Top.context
      /\ f.moved = Top.moved /\ f.old = Top.old
  <2>1. "reset" \in Phase /\ 1 \in Nat
    BY DEF Phase
  <2>2. Put(f)
    BY DEF BodyEnds, Goto
  <2> QED
    BY <1>2, <1>5, <2>1, <2>2 DEF Frame
<1> HIDE DEF f
<1>7. \A p : Owes(f, p) <=> Owes(Top, p)
  BY <1>1, <1>6 DEF Owes
<1>8. \A v : Holds(f, v) <=> Holds(Top, v)
  BY <1>1, <1>5, <1>6 DEF Holds, Items
<1>9. FrameOK(f)
  BY <1>2, <1>6, <1>8 DEF FrameOK
<1>10. TypeOK'
  BY <1>1, <1>2, <1>3, <1>6, TypeStep
<1> QED
  BY <1>1, <1>2, <1>3, <1>4, <1>6, <1>7, <1>8, <1>9, <1>10, CoreStep

LEMMA ResetVarCore == ASSUME Core, ResetVar PROVE Core'
<1>1. stack # <<>> /\ Top.phase = "reset" /\ UNCHANGED <<hidden, raising, stuck, others>>
  BY DEF ResetVar, In
<1>2. UNCHANGED <<torn, envFound, present>> /\ TypeOK /\ Top \in Frame /\ FrameOK(Top)
  BY <1>1, TopType, TopOK DEF others, foundVars, Core
<1>3. /\ stuck \subseteq hidden /\ hidden \subseteq present /\ raising \in BOOLEAN
      /\ env \in [Var -> Setting]
  BY <1>2 DEF TypeOK
<1>4. \A p \in Path : Owes(Top, p) => p \in hidden /\ p \notin stuck
  BY <1>1, TopType DEF Core, Owing, Top
<1>5. /\ Top.context \in Context /\ Top.at \in Nat /\ Top.at >= 1 /\ Top.moved \subseteq Path
      /\ Files \in Seq(Path) /\ Items \in Seq(Var \X (Value \cup {Unset}))
  BY <1>1, <1>2, TopType, TopOK DEF Frame, Core
<1>6. CASE Top.at > Len(Items) /\ Goto("back") /\ UNCHANGED env
  <2> DEFINE f == [Top EXCEPT !.phase = "back", !.at = 1]
  <2>1. f \in Frame /\ Put(f) /\ f.phase = "back" /\ f.at = 1 /\ f.context = Top.context
        /\ f.moved = Top.moved /\ f.old = Top.old
    <3>1. "back" \in Phase /\ 1 \in Nat
      BY DEF Phase
    <3>2. Put(f)
      BY <1>6 DEF Goto
    <3> QED
      BY <1>2, <1>5, <3>1, <3>2 DEF Frame
  <2> HIDE DEF f
  <2>2. \A p : Owes(f, p) <=> Owes(Top, p)
    BY <1>1, <1>2, <1>5, <2>1 DEF Owes, FrameOK, Files
  <2>3. \A v : ~Holds(f, v) /\ ~Holds(Top, v)
    BY <1>1, <1>5, <1>6, <2>1 DEF Holds, Items
  <2>4. FrameOK(f)
    BY <1>2, <2>1, <2>3 DEF FrameOK
  <2>5. TypeOK'
    BY <1>1, <1>2, <1>3, <1>6, <2>1, TypeStep
  <2> QED
    BY <1>1, <1>2, <1>3, <1>4, <1>6, <2>1, <2>2, <2>3, <2>4, <2>5, CoreStep
<1>7. CASE Top.at <= Len(Items)
  <2> DEFINE key == Items[Top.at][1]
             f == [Top EXCEPT !.at = @ + 1]
  <2>1. /\ Put(f) /\ env' = [env EXCEPT ![key] = Top.old[key]]
        /\ Top.at \in DOMAIN Items /\ Top.at + 1 \in Nat
    BY <1>5, <1>7 DEF ResetVar, Step
  <2>2. f \in Frame /\ f.phase = "reset" /\ f.at = Top.at + 1 /\ f.context = Top.context
        /\ f.moved = Top.moved /\ f.old = Top.old
    BY <1>1, <1>2, <2>1 DEF Frame
  <2> HIDE DEF f
  <2>10. \A i, j \in DOMAIN Items : Items[i][1] = Items[j][1] => i = j
    BY <1>5, ContextAssumption DEF Items
  <2>3. key \in Var /\ Holds(Top, key)
    <3>1. key \in Var
      BY <1>5, <2>1
    <3>2. Top.at \in DOMAIN Top.context.items /\ Top.context.items[Top.at][1] = key
      BY <2>1 DEF Items
    <3> HIDE DEF key
    <3> QED
      BY <1>1, <1>5, <3>1, <3>2 DEF Holds
  <2>4. Top.old[key] \in Setting
    <3>1. key \in DOMAIN Top.old
      BY <1>2, <2>3 DEF FrameOK
    <3> QED
      BY <1>2, <3>1 DEF Frame
  <2>5. \A p : Owes(f, p) <=> Owes(Top, p)
    BY <1>1, <2>2 DEF Owes
  <2>6. \A v : Holds(f, v) <=> Holds(Top, v) /\ v # key
    <3> HIDE DEF key
    <3>1. \A k \in DOMAIN Items : Items[k][1] = key <=> k = Top.at
      BY <2>1, <2>10 DEF key
    <3>2. \A k \in DOMAIN Items : k >= Top.at + 1 <=> k >= Top.at /\ k # Top.at
      BY <1>5
    <3>3. f.context.items = Items /\ Top.context.items = Items
      BY <2>2 DEF Items
    <3> QED
      BY <1>1, <2>2, <3>1, <3>2, <3>3 DEF Holds
  <2>7. FrameOK(f)
    BY <1>1, <1>2, <1>5, <2>2, <2>6 DEF FrameOK
  <2>8. TypeOK'
    <3>1. env' \in [Var -> Setting]
      BY <1>3, <2>1, <2>3, <2>4
    <3> QED
      BY <1>1, <1>2, <1>3, <2>1, <2>2, <3>1, TypeStep
  <2>9. env'[key] = Top.old[key] /\ \A v \in Var : v # key => env'[v] = env[v]
    BY <1>3, <2>1, <2>3
  <2> HIDE DEF key
  <2> QED
    BY <1>1, <1>2, <1>3, <1>4, <2>1, <2>2, <2>3, <2>5, <2>6, <2>7, <2>8, <2>9, CoreStep
<1> QED
  BY <1>5, <1>6, <1>7 DEF ResetVar

LEMMA MoveBackCore == ASSUME Core, MoveBack PROVE Core'
<1>1. stack # <<>> /\ Top.phase = "back" /\ UNCHANGED <<env, raising, others>>
  BY DEF MoveBack, In
<1>2. UNCHANGED <<torn, envFound, present>> /\ TypeOK /\ Top \in Frame /\ FrameOK(Top)
  BY <1>1, TopType, TopOK DEF others, foundVars, Core
<1>3. /\ stuck \subseteq hidden /\ hidden \subseteq present /\ raising \in BOOLEAN
      /\ env \in [Var -> Setting]
  BY <1>2 DEF TypeOK
<1>4. \A p \in Path : Owes(Top, p) => p \in hidden /\ p \notin stuck
  BY <1>1, TopType DEF Core, Owing, Top
<1>5. /\ Top.context \in Context /\ Top.at \in Nat /\ Top.at >= 1 /\ Top.moved \subseteq Path
      /\ Files \in Seq(Path) /\ Items \in Seq(Var \X (Value \cup {Unset}))
  BY <1>1, <1>2, TopType, TopOK DEF Frame, Core
<1> DEFINE p0 == Files[Top.at]
           f == [Top EXCEPT !.at = @ + 1]
<1>6. Put(f) /\ Top.at \in DOMAIN Files /\ Top.at + 1 \in Nat /\ p0 \in Path
  BY <1>5 DEF MoveBack, Step
<1>7. f \in Frame /\ f.phase = "back" /\ f.at = Top.at + 1 /\ f.context = Top.context
      /\ f.moved = Top.moved /\ f.old = Top.old
  BY <1>1, <1>2, <1>6 DEF Frame
<1> HIDE DEF f
<1>8. \A v : ~Holds(f, v) /\ ~Holds(Top, v)
  BY <1>1, <1>7 DEF Holds
<1>9. FrameOK(f)
  BY <1>1, <1>2, <1>5, <1>7, <1>8 DEF FrameOK
<1>10. \A p : Owes(f, p) <=> Owes(Top, p) /\ p # p0
  BY <1>1, <1>5, <1>6, <1>7, ContextAssumption DEF Owes, Files
<1>11. Owes(Top, p0) <=> p0 \in Top.moved
  BY <1>1, <1>5, <1>6 DEF Owes, Files
<1>12. CASE p0 \notin Top.moved
  <2>1. UNCHANGED <<hidden, stuck>>
    BY <1>12 DEF MoveBack
  <2>2. \A p : Owes(f, p) <=> Owes(Top, p)
    BY <1>10, <1>11, <1>12
  <2>3. TypeOK'
    BY <1>1, <1>2, <1>3, <1>6, <1>7, <2>1, TypeStep
  <2> HIDE DEF p0
  <2> QED
    BY <1>1, <1>2, <1>3, <1>4, <1>6, <1>7, <1>8, <1>9, <2>1, <2>2, <2>3, CoreStep
<1>13. CASE p0 \in Top.moved
  <2>1. \/ hidden' = hidden \ {p0} /\ UNCHANGED stuck
        \/ stuck' = stuck \cup {p0} /\ UNCHANGED hidden
    BY <1>13 DEF MoveBack
  <2>2. p0 \in hidden /\ p0 \notin stuck
    BY <1>4, <1>6, <1>11, <1>13
  <2>3. TypeOK'
    <3>1. hidden' \subseteq present /\ stuck' \subseteq hidden'
      BY <1>3, <2>1, <2>2
    <3> QED
      BY <1>1, <1>2, <1>3, <1>6, <1>7, <3>1, TypeStep
  <2> HIDE DEF p0
  <2>4. \A p \in Path : Owes(f, p) => p \in hidden' /\ p \notin stuck' /\ Owes(Top, p)
    BY <1>4, <1>10, <2>1
  <2>5. \A p \in Path : p \in hidden /\ p \notin hidden' => Owes(Top, p)
    BY <1>11, <1>13, <2>1
  <2>6. \A p \in stuck' : p \in stuck \/ Owes(Top, p)
    BY <1>11, <1>13, <2>1
  <2>7. \A p \in hidden' : \/ p \in hidden /\ ~Owes(Top, p)
                          \/ p \in stuck'
                          \/ Owes(f, p)
    BY <1>10, <2>1
  <2>8. stuck \subseteq stuck'
    BY <2>1
  <2> QED
    BY <1>1, <1>2, <1>6, <1>7, <1>8, <1>9, <2>3, <2>4, <2>5, <2>6, <2>7, <2>8, CoreStep
<1> QED
  BY <1>12, <1>13

LEMMA EnterCore == ASSUME Core, Enter PROVE Core'
<1> DEFINE n == Len(stack)
<1>1. /\ UNCHANGED <<env, hidden, raising, stuck, torn, envFound>>
      /\ UNCHANGED <<tokenVars, stage, interrupted, present>>
      /\ TypeOK /\ Frames /\ Owing /\ n < MaxDepth
  BY DEF Enter, others, foundVars, Core
<1>2. PICK c \in Context :
        stack' = Append(stack, [context |-> c, phase |-> "move", at |-> 1,
                                moved |-> {}, old |-> [v \in {} |-> Unset]])
  BY DEF Enter
<1> DEFINE g == [context |-> c, phase |-> "move", at |-> 1,
                 moved |-> {}, old |-> [v \in {} |-> Unset]]
<1>3. g \in Frame
  <2>1. [v \in {} |-> Unset] \in [{} -> Setting] /\ {} \in SUBSET Var
    OBVIOUS
  <2>2. [v \in {} |-> Unset] \in UNION {[V -> Setting] : V \in SUBSET Var}
    BY <2>1
  <2> QED
    BY <2>2 DEF Frame, Phase
<1>4. (\A p : ~Owes(g, p)) /\ (\A v : ~Holds(g, v)) /\ FrameOK(g)
  BY DEF Owes, Holds, FrameOK
<1> HIDE DEF g
<1>5. stack \in Seq(Frame) /\ n \in Nat /\ DOMAIN stack = 1..n /\ MaxDepth \in Nat
  BY <1>1, TokenAssumption DEF TypeOK
<1>6. /\ stack' \in Seq(Frame) /\ Len(stack') = n + 1 /\ DOMAIN stack' = 1..(n + 1)
      /\ stack'[n + 1] = g /\ \A i \in 1..n : stack'[i] = stack[i]
  BY <1>2, <1>3, <1>5 DEF g
<1>7. TypeOK'
  <2>1. Len(stack') <= MaxDepth
    BY <1>1, <1>5, <1>6
  <2> QED
    BY <1>1, <1>6, <2>1 DEF TypeOK, tokenVars
<1>8. Frames'
  <2>1. n > 0 => stack[n].phase = "body"
    BY <1>5 DEF Enter, In, Top
  <2> HIDE DEF n
  <2>2. \A i \in 1..(n + 1) : FrameOK(stack'[i])
    BY <1>1, <1>4, <1>5, <1>6 DEF Frames
  <2>3. \A i \in 1..(n + 1) : i < n + 1 => stack'[i].phase = "body"
    BY <1>1, <1>5, <1>6, <2>1 DEF Frames, n
  <2> QED
    BY <1>6, <2>2, <2>3 DEF Frames, FrameOK, Holds
<1> HIDE DEF n
<1>9. Owing'
  <2>1. \A i \in 1..(n + 1) : \A p : Owes(stack'[i], p) => i \in 1..n /\ Owes(stack[i], p)
    BY <1>4, <1>5, <1>6
  <2> QED
    BY <1>1, <1>5, <1>6, <2>1 DEF Owing, Owes
<1>10. AllOwed => AllOwed'
  <2>1. \A i \in 1..n : \A p : Owes(stack[i], p) => i \in 1..(n + 1) /\ Owes(stack'[i], p)
    BY <1>5, <1>6
  <2> QED
    BY <1>1, <1>5, <1>6, <2>1 DEF AllOwed, Owes
<1>11. OldKept => OldKept'
  <2>1. SUFFICES ASSUME OldKept, NEW v \in Var
        PROVE  /\ (\A i \in 1..(n + 1) : ~Holds(stack'[i], v)) => env[v] = envFound[v]
               /\ \A i \in 1..(n + 1) :
                    Holds(stack'[i], v) /\ (\A j \in 1..(i - 1) : ~Holds(stack'[j], v))
                      => stack'[i].old[v] = envFound[v]
    BY <1>1, <1>6 DEF OldKept, Holds
  <2>2. (\A i \in 1..(n + 1) : ~Holds(stack'[i], v)) => env[v] = envFound[v]
    BY <1>5, <1>6, <2>1 DEF OldKept
  <2>3. ASSUME NEW i \in 1..(n + 1), Holds(stack'[i], v),
               \A j \in 1..(i - 1) : ~Holds(stack'[j], v)
        PROVE  stack'[i].old[v] = envFound[v]
    <3>1. i \in 1..n
      BY <1>4, <1>5, <1>6, <2>3
    <3>2. \A j \in 1..(i - 1) : ~Holds(stack[j], v)
      BY <1>5, <1>6, <2>3, <3>1
    <3> QED
      BY <1>5, <1>6, <2>1, <2>3, <3>1, <3>2 DEF OldKept
  <2> QED
    BY <2>2, <2>3
<1> QED
  BY <1>1, <1>7, <1>8, <1>9, <1>10, <1>11 DEF Core

LEMMA ExitCore == ASSUME Core, Exit PROVE Core'
<1> DEFINE n == Len(stack)
           m == n - 1
           outer == SubSeq(stack, 1, m)
<1>1. /\ UNCHANGED <<env, hidden, stuck, torn, envFound>>
      /\ UNCHANGED <<tokenVars, stage, interrupted, present>>
      /\ TypeOK /\ Frames /\ Owing /\ stack # <<>> /\ Top.phase = "back"
      /\ Top.at > Len(Files)
  BY DEF Exit, others, foundVars, Core, In
<1>2. stack \in Seq(Frame) /\ n \in Nat \ {0} /\ DOMAIN stack = 1..n /\ Top = stack[n]
      /\ MaxDepth \in Nat
  BY <1>1, TokenAssumption DEF TypeOK, Top
<1>3. (\A p : ~Owes(stack[n], p)) /\ (\A v : ~Holds(stack[n], v))
  BY <1>1, <1>2, TopType DEF Owes, Holds, Files
<1>4. /\ outer \in Seq(Frame) /\ Len(outer) = m /\ DOMAIN outer = 1..m
      /\ \A i \in 1..m : outer[i] = stack[i]
  BY <1>2
<1>m. /\ m \in Nat /\ n = m + 1 /\ m < n /\ 1..m \subseteq 1..n
      /\ \A i \in 1..n : i \in 1..m \/ i = n
  <2>1. n \in Nat \ {0}
    BY <1>2
  <2> HIDE DEF n
  <2> QED
    BY <2>1
<1> DEFINE g == [outer[m] EXCEPT !.phase = "reset", !.at = 1]
<1>5. \/ stack' = outer
      \/ m >= 1 /\ stack' = [outer EXCEPT ![m] = g]
  <2>1. CASE raising /\ outer # <<>>
    <3>1. stack' = [outer EXCEPT ![Len(outer)].phase = "reset", ![Len(outer)].at = 1]
      BY <2>1 DEF Exit
    <3>2. Len(outer) = m /\ m >= 1 /\ m \in DOMAIN outer
      BY <1>2, <1>4, <2>1
    <3> QED
      BY <1>4, <3>1, <3>2
  <2>2. CASE ~(raising /\ outer # <<>>)
    BY <2>2 DEF Exit
  <2> QED
    BY <2>1, <2>2
<1>6. m >= 1 => /\ g \in Frame /\ g.phase = "reset" /\ g.at = 1
                /\ g.context = stack[m].context /\ g.moved = stack[m].moved
                /\ g.old = stack[m].old
  <2>1. m >= 1 => outer[m] \in Frame /\ outer[m] = stack[m]
    BY <1>2, <1>4
  <2> HIDE DEF outer
  <2> QED
    BY <2>1 DEF Frame, Phase
<1>7. \A i \in 1..m : FrameOK(stack[i]) /\ stack[i].phase = "body" /\ stack[i] \in Frame
  BY <1>1, <1>2 DEF Frames
<1> HIDE DEF g, outer, m
<1>8. m >= 1 => /\ \A p : Owes(g, p) <=> Owes(stack[m], p)
                /\ \A v : Holds(g, v) <=> Holds(stack[m], v)
                /\ FrameOK(g)
  <2> SUFFICES ASSUME m >= 1
               PROVE  /\ \A p : Owes(g, p) <=> Owes(stack[m], p)
                      /\ \A v : Holds(g, v) <=> Holds(stack[m], v)
                      /\ FrameOK(g)
    OBVIOUS
  <2>1. m \in 1..m
    BY <1>m
  <2>2. \A p : Owes(g, p) <=> Owes(stack[m], p)
    BY <1>6, <1>7, <2>1 DEF Owes
  <2>3. \A k \in DOMAIN stack[m].context.items : k >= 1
    BY <1>7, <2>1, ContextAssumption DEF Frame
  <2>4. \A v : Holds(g, v) <=> Holds(stack[m], v)
    BY <1>6, <1>7, <2>1, <2>3 DEF Holds
  <2> QED
    BY <1>6, <1>7, <2>1, <2>2, <2>4 DEF FrameOK
<1>9. /\ stack' \in Seq(Frame) /\ Len(stack') = m /\ DOMAIN stack' = 1..m
      /\ \A i \in 1..m : stack'[i] = stack[i] \/ (i = m /\ stack'[i] = g)
  <2>1. CASE stack' = outer
    <3>1. \A i \in 1..m : stack'[i] = stack[i]
      BY <1>4, <2>1
    <3>2. stack' \in Seq(Frame) /\ Len(stack') = m /\ DOMAIN stack' = 1..m
      BY <1>4, <2>1
    <3> QED
      BY <3>1, <3>2
  <2>2. CASE m >= 1 /\ stack' = [outer EXCEPT ![m] = g]
    <3>1. outer # <<>> /\ stack' = [outer EXCEPT ![Len(outer)] = g] /\ g \in Frame
      BY <1>4, <1>6, <2>2
    <3>2. /\ stack' \in Seq(Frame) /\ Len(stack') = Len(outer) /\ stack'[Len(stack')] = g
          /\ \A i \in DOMAIN outer : i # Len(outer) => stack'[i] = outer[i]
      BY <1>4, <3>1, PutFacts
    <3>3. DOMAIN stack' = 1..m
      BY <1>4, <1>m, <3>2
    <3>4. stack'[m] = g /\ \A i \in 1..m : i # m => stack'[i] = stack[i]
      BY <1>4, <3>2
    <3> QED
      BY <1>4, <3>2, <3>3, <3>4
  <2> QED
    BY <1>5, <2>1, <2>2
<1>15. \A i \in 1..m : stack'[i].old = stack[i].old /\ FrameOK(stack'[i])
  BY <1>6, <1>7, <1>8, <1>9, <1>m
<1>16. \A i \in 1..m : \A p : Owes(stack'[i], p) <=> Owes(stack[i], p)
  BY <1>8, <1>9, <1>m
<1>17. \A i \in 1..m : \A v : Holds(stack'[i], v) <=> Holds(stack[i], v)
  BY <1>8, <1>9, <1>m
<1>18. \A i \in 1..m : i < m => stack'[i].phase = "body"
  BY <1>7, <1>9
<1>10. TypeOK'
  <2>1. Len(stack') <= MaxDepth
    BY <1>1, <1>2, <1>m, <1>9 DEF TypeOK
  <2>2. raising' \in BOOLEAN
    BY DEF Exit
  <2> QED
    BY <1>1, <1>9, <2>1, <2>2 DEF TypeOK, tokenVars
<1> HIDE DEF n
<1>11. Frames'
  BY <1>9, <1>15, <1>18 DEF Frames, FrameOK, Holds
<1>12. Owing'
  BY <1>1, <1>2, <1>m, <1>9, <1>16 DEF Owing, Owes
<1>13. AllOwed => AllOwed'
  <2>1. SUFFICES ASSUME AllOwed, NEW p \in hidden, p \notin stuck
                 PROVE  \E i \in 1..m : Owes(stack'[i], p)
    BY <1>1, <1>9 DEF AllOwed, Owes
  <2>2. PICK i \in 1..n : Owes(stack[i], p)
    BY <1>2, <2>1 DEF AllOwed
  <2>3. i \in 1..m
    BY <1>m, <1>3, <2>2
  <2> QED
    BY <1>16, <2>2, <2>3
<1>14. OldKept => OldKept'
  <2>1. SUFFICES ASSUME OldKept, NEW v \in Var
        PROVE  /\ (\A i \in 1..m : ~Holds(stack'[i], v)) => env[v] = envFound[v]
               /\ \A i \in 1..m :
                    Holds(stack'[i], v) /\ (\A j \in 1..(i - 1) : ~Holds(stack'[j], v))
                      => stack'[i].old[v] = envFound[v]
    BY <1>1, <1>9 DEF OldKept, Holds
  <2>2. ASSUME \A i \in 1..m : ~Holds(stack'[i], v)
        PROVE  env[v] = envFound[v]
    <3>1. \A i \in 1..n : ~Holds(stack[i], v)
      BY <1>m, <1>3, <1>17, <2>2
    <3> QED
      BY <1>2, <2>1, <3>1 DEF OldKept
  <2>3. ASSUME NEW i \in 1..m, Holds(stack'[i], v),
               \A j \in 1..(i - 1) : ~Holds(stack'[j], v)
        PROVE  stack'[i].old[v] = envFound[v]
    <3>1. i \in 1..n /\ Holds(stack[i], v)
      BY <1>m, <1>17, <2>3
    <3>3. \A j \in 1..(i - 1) : j \in 1..m
      BY <1>m
    <3>4. \A j \in 1..(i - 1) : ~Holds(stack[j], v)
      BY <1>17, <2>3, <3>3
    <3>5. stack[i].old[v] = envFound[v]
      BY <1>2, <2>1, <3>1, <3>4 DEF OldKept
    <3> QED
      BY <1>15, <3>5
  <2> QED
    BY <2>2, <2>3
<1> QED
  BY <1>1, <1>10, <1>11, <1>12, <1>13, <1>14 DEF Core

(* Ctrl-C in a block is an exception like any other. Where it tears, only  *)
(* Frames and Owing are left to show.                                      *)
LEMMA InterruptCore == ASSUME Core, torn # {} => interrupted, Interrupt PROVE Core'
<1>1. /\ UNCHANGED <<env, hidden, stuck, tokenVars, foundVars, envFound, present>>
      /\ TypeOK /\ Frames /\ Owing /\ ~interrupted /\ torn = {} /\ AllOwed /\ OldKept
  BY DEF Interrupt, Core, foundVars
<1>2. /\ stage' \in {"request", "tests", "clean", "done"} /\ raising' \in BOOLEAN
      /\ torn' \subseteq {"context", "token"} /\ interrupted' \in BOOLEAN
  <2>1. stage' \in {"request", "tests", "clean", "done"} /\ interrupted' \in BOOLEAN
    BY DEF Interrupt
  <2>2. raising' \in BOOLEAN
    BY DEF Interrupt
  <2>3. torn' \subseteq {"context", "token"}
    BY DEF Interrupt
  <2> QED
    BY <2>1, <2>2, <2>3
<1>3. ASSUME stack' \in Seq(Frame), Len(stack') <= MaxDepth
      PROVE  TypeOK'
  BY <1>1, <1>2, <1>3 DEF TypeOK, tokenVars
<1>4. CASE stack = <<>>
  <2>1. UNCHANGED stack
    BY <1>4 DEF Interrupt, In
  <2>2. TypeOK'
    BY <1>1, <1>2, <2>1 DEF TypeOK, tokenVars
  <2>3. Frames' /\ Owing' /\ AllOwed' /\ OldKept'
    BY <1>1, <2>1 DEF Frames, Owing, AllOwed, OldKept, FrameOK, Owes, Holds
  <2> QED
    BY <2>2, <2>3 DEF Core
<1>5. CASE stack # <<>>
  <2>1. Top \in Frame /\ FrameOK(Top)
    BY <1>1, <1>5, TopType, TopOK
  <2>2. \A p \in Path : Owes(Top, p) => p \in hidden /\ p \notin stuck
    BY <1>1, <1>5, TopType DEF Owing, Top
  <2>3. /\ Top.context \in Context /\ Top.at \in Nat /\ Top.at >= 1 /\ Top.moved \subseteq Path
        /\ Files \in Seq(Path) /\ Items \in Seq(Var \X (Value \cup {Unset}))
    BY <1>1, <1>5, <2>1, TopType, TopOK DEF Frame
  <2>4. ASSUME NEW f \in Frame, Put(f)
        PROVE  TypeOK'
    <3>1. stack' \in Seq(Frame) /\ Len(stack') = Len(stack)
      BY <1>1, <1>5, <2>4, PutFacts DEF TypeOK, Put
    <3> QED
      BY <1>1, <1>3, <3>1 DEF TypeOK
  <2>5. CASE In("body")
    <3> DEFINE f == [Top EXCEPT !.phase = "reset", !.at = 1]
    <3>1. Top.phase = "body" /\ "context" \notin torn' /\ Put(f)
      BY <1>5, <2>5 DEF Interrupt, In, Goto
    <3>2. f \in Frame /\ f.phase = "reset" /\ f.at = 1 /\ f.context = Top.context
          /\ f.moved = Top.moved /\ f.old = Top.old
      BY <2>1 DEF Frame, Phase
    <3> HIDE DEF f
    <3>3. \A p : Owes(f, p) <=> Owes(Top, p)
      BY <3>1, <3>2 DEF Owes
    <3>4. \A v : Holds(f, v) <=> Holds(Top, v)
      BY <2>3, <3>1, <3>2 DEF Holds, Items
    <3>5. FrameOK(f)
      BY <2>1, <3>2, <3>4 DEF FrameOK
    <3> QED
      BY <1>1, <1>5, <2>2, <2>4, <3>1, <3>2, <3>3, <3>4, <3>5, CoreStep
  <2>6. CASE In("back")
    <3> DEFINE f == [Top EXCEPT !.at = Len(Files) + 1]
    <3>1. Top.phase = "back" /\ "context" \in torn' /\ Put(f)
      BY <1>5, <2>6 DEF Interrupt, In
    <3>2. f \in Frame /\ f.phase = "back" /\ f.at = Len(Files) + 1 /\ f.context = Top.context
          /\ f.moved = Top.moved /\ f.old = Top.old
      <4>1. Top.phase = "back"
        BY <2>6 DEF In
      <4> QED
        BY <2>1, <2>3, <4>1 DEF Frame
    <3> HIDE DEF f
    <3>3. (\A p : ~Owes(f, p)) /\ (\A v : ~Holds(f, v))
      BY <2>3, <3>2 DEF Owes, Holds, Files
    <3>5. FrameOK(f)
      BY <2>1, <2>3, <3>2, <3>3 DEF FrameOK
    <3> QED
      BY <1>1, <1>5, <2>4, <3>1, <3>2, <3>3, <3>5, CoreStep
  <2>7. CASE ~In("body") /\ ~In("back")
    <3> DEFINE f == [Top EXCEPT !.phase = "back", !.at = 1]
    <3>1. Top.phase # "back" /\ "context" \in torn' /\ Put(f)
      BY <1>5, <2>7 DEF Interrupt, In, Goto
    <3>2. f \in Frame /\ f.phase = "back" /\ f.at = 1 /\ f.context = Top.context
          /\ f.moved = Top.moved /\ f.old = Top.old
      BY <2>1 DEF Frame, Phase
    <3> HIDE DEF f
    <3>3. (\A p : Owes(f, p) => Owes(Top, p)) /\ (\A v : ~Holds(f, v))
      BY <3>1, <3>2 DEF Owes, Holds
    <3>5. FrameOK(f)
      BY <2>1, <3>2, <3>3 DEF FrameOK
    <3> QED
      BY <1>1, <1>5, <2>2, <2>4, <3>1, <3>2, <3>3, <3>5, CoreStep
  <2> QED
    BY <2>5, <2>6, <2>7
<1> QED
  BY <1>4, <1>5

LEMMA SameContexts ==
  ASSUME Core, TypeOK', UNCHANGED <<contextVars, torn, foundVars>>
  PROVE  Core'
<1>1. UNCHANGED <<env, hidden, stack, stuck, envFound, torn>>
  BY DEF contextVars, foundVars
<1> QED
  BY <1>1 DEF Core, Frames, Owing, AllOwed, OldKept, FrameOK, Owes, Holds

--------------------------------------------------------------------------------
(* The steps of a token.                                                   *)

LEMMA RequestType ==
  ASSUME TypeOK, NEW step, Requesting(step)
  PROVE  /\ name \in Names /\ request.token \in Nat /\ stage = "request"
         /\ request.token + 1 \in 1..(Len(Token) + 1)
         /\ Len(Token) + 1 \in 1..(Len(Token) + 1) /\ Len(Token) \in Nat
<1>1. Len(Token) \in Nat /\ DOMAIN Token = 1..Len(Token)
  BY TokenAssumption
<1>2. request.token \in 1..(Len(Token) + 1) /\ request.token <= Len(Token) /\ stage = "request"
  BY <1>1 DEF TypeOK, Requesting
<1>3. request.token \in DOMAIN Token
  BY <1>1, <1>2
<1> QED
  BY <1>1, <1>2, <1>3 DEF Names, name

(* The types of a request that goes on, or to the next token. *)
LEMMA RequestNext ==
  ASSUME TypeOK, NEW step, Requesting(step),
         NEW next \in {"exists", "download", "write", "flag", "parse"},
         request' = [request EXCEPT !.step = next] \/ NextToken \/ Raises
  PROVE  /\ request' \in [token : 1..Len(Token) + 1,
                          step : {"exists", "download", "write", "flag", "parse"}]
         /\ request' = [request EXCEPT !.step = next] =>
              request'.token = request.token /\ request'.step = next
         /\ NextToken \/ Raises => request'.step = "exists"
<1>1. /\ request \in [token : 1..Len(Token) + 1,
                      step : {"exists", "download", "write", "flag", "parse"}]
      /\ request.token + 1 \in 1..(Len(Token) + 1) /\ Len(Token) + 1 \in 1..(Len(Token) + 1)
  BY RequestType DEF TypeOK
<1> QED
  BY <1>1 DEF NextToken, Raises

LEMMA TokenExistsInv == ASSUME TypeOK, Tokens, TokenExists PROVE TypeOK' /\ Tokens'
<1>1. /\ Requesting("exists") /\ request.step = "exists" /\ name \in Names /\ stage = "request"
      /\ UNCHANGED <<created, stage, contextVars, interrupted, torn, foundVars>>
  BY RequestType DEF TokenExists, Requesting, elsewhere
<1>2. /\ tokenfile \in [Names -> TokenFile] /\ overwritten \subseteq Names
  BY DEF TypeOK
<1>3. CASE /\ request' = [request EXCEPT !.step = "download"]
           /\ \/ tokenfile[name] = "none" /\ UNCHANGED <<tokenfile, overwritten>>
              \/ /\ tokenfile' = [tokenfile EXCEPT ![name] = "none"]
                 /\ overwritten' = overwritten \cup {name}
  <2>1. /\ request' \in [token : 1..Len(Token) + 1,
                         step : {"exists", "download", "write", "flag", "parse"}]
        /\ request'.token = request.token /\ request'.step = "download"
    BY <1>1, <1>3, RequestNext
  <2>2. tokenfile' \in [Names -> TokenFile] /\ overwritten' \subseteq Names
    BY <1>1, <1>2, <1>3 DEF TokenFile
  <2>3. tokenfile'[name] = "none" /\ \A t \in Names : t # name => tokenfile'[t] = tokenfile[t]
    BY <1>1, <1>2, <1>3
  <2>4. TypeOK'
    BY <1>1, <2>1, <2>2 DEF TypeOK, contextVars, foundVars
  <2>5. name' = name
    BY <2>1 DEF name
  <2>6. created \subseteq Names
    BY DEF TypeOK
  <2> HIDE DEF name
  <2> QED
    BY <1>1, <2>1, <2>3, <2>4, <2>5, <2>6 DEF Tokens, Requesting, Found
<1>4. CASE NextToken /\ UNCHANGED <<tokenfile, overwritten>>
  <2>1. /\ request' \in [token : 1..Len(Token) + 1,
                         step : {"exists", "download", "write", "flag", "parse"}]
        /\ request'.step = "exists"
    BY <1>1, <1>4, RequestNext
  <2>2. TypeOK'
    BY <1>1, <1>4, <2>1 DEF TypeOK, contextVars, foundVars
  <2> QED
    BY <1>1, <1>4, <2>1, <2>2 DEF Tokens, Requesting
<1> QED
  BY <1>3, <1>4 DEF TokenExists

LEMMA DownloadInv == ASSUME TypeOK, Tokens, Download PROVE TypeOK' /\ Tokens'
<1>1. /\ Requesting("download") /\ request.step = "download" /\ stage = "request"
      /\ UNCHANGED <<tokenfile, created, overwritten, stage>>
      /\ UNCHANGED <<contextVars, interrupted, torn, foundVars>>
  BY RequestType DEF Download, Requesting, elsewhere
<1>2. /\ request' \in [token : 1..Len(Token) + 1,
                       step : {"exists", "download", "write", "flag", "parse"}]
      /\ \/ request'.token = request.token /\ request'.step = "write"
         \/ request'.step = "exists"
  BY <1>1, RequestNext DEF Download
<1>3. TypeOK'
  BY <1>1, <1>2 DEF TypeOK, contextVars, foundVars
<1>4. request'.step = "write" => name' = name
  BY <1>2 DEF name
<1> HIDE DEF name
<1> QED
  BY <1>1, <1>2, <1>3, <1>4 DEF Tokens, Requesting

LEMMA WriteTokenInv == ASSUME TypeOK, Tokens, WriteToken PROVE TypeOK' /\ Tokens'
<1>1. /\ Requesting("write") /\ request.step = "write" /\ name \in Names /\ stage = "request"
      /\ UNCHANGED <<created, overwritten, stage, contextVars, interrupted, torn, foundVars>>
  BY RequestType DEF WriteToken, Requesting, elsewhere
<1>2. /\ tokenfile \in [Names -> TokenFile] /\ created \subseteq Names
  BY DEF TypeOK
<1>3. CASE /\ tokenfile' = [tokenfile EXCEPT ![name] = "made"]
           /\ request' = [request EXCEPT !.step = "flag"]
  <2>1. /\ request' \in [token : 1..Len(Token) + 1,
                         step : {"exists", "download", "write", "flag", "parse"}]
        /\ request'.token = request.token /\ request'.step = "flag"
    BY <1>1, <1>3, RequestNext
  <2>2. tokenfile' \in [Names -> TokenFile]
    BY <1>1, <1>2, <1>3 DEF TokenFile
  <2>3. tokenfile'[name] = "made" /\ \A t \in Names : t # name => tokenfile'[t] = tokenfile[t]
    BY <1>1, <1>2, <1>3
  <2>4. TypeOK'
    BY <1>1, <2>1, <2>2 DEF TypeOK, contextVars, foundVars
  <2>5. name' = name
    BY <2>1 DEF name
  <2>6. Requesting("flag")' /\ ~Requesting("download")' /\ ~Requesting("write")'
    BY <1>1, <2>1 DEF Requesting
  <2> HIDE DEF name
  <2> QED
    BY <1>1, <1>2, <2>1, <2>3, <2>4, <2>5, <2>6 DEF Tokens, Requesting, Found
<1>4. CASE Raises /\ UNCHANGED tokenfile
  <2>1. /\ request' \in [token : 1..Len(Token) + 1,
                         step : {"exists", "download", "write", "flag", "parse"}]
        /\ request'.step = "exists"
    BY <1>1, <1>4, RequestNext
  <2>2. TypeOK'
    BY <1>1, <1>4, <2>1 DEF TypeOK, contextVars, foundVars
  <2> QED
    BY <1>1, <1>4, <2>1, <2>2 DEF Tokens, Requesting
<1> QED
  BY <1>3, <1>4 DEF WriteToken

LEMMA FlagTokenInv == ASSUME TypeOK, Tokens, FlagToken PROVE TypeOK' /\ Tokens'
<1>1. /\ Requesting("flag") /\ request.step = "flag" /\ name \in Names /\ stage = "request"
      /\ UNCHANGED <<tokenfile, overwritten, stage, contextVars, interrupted, torn, foundVars>>
      /\ created' = created \cup {name} /\ request' = [request EXCEPT !.step = "parse"]
  BY RequestType DEF FlagToken, Requesting, elsewhere
<1>2. /\ request' \in [token : 1..Len(Token) + 1,
                       step : {"exists", "download", "write", "flag", "parse"}]
      /\ request'.step = "parse"
  BY <1>1, RequestNext
<1>3. TypeOK'
  BY <1>1, <1>2 DEF TypeOK, contextVars, foundVars
<1> HIDE DEF name
<1> QED
  BY <1>1, <1>2, <1>3 DEF Tokens, Requesting, Found

LEMMA ParseTokenInv == ASSUME TypeOK, Tokens, ParseToken PROVE TypeOK' /\ Tokens'
<1>1. /\ Requesting("parse") /\ request.step = "parse" /\ stage = "request"
      /\ UNCHANGED <<tokenfile, created, overwritten, stage>>
      /\ UNCHANGED <<contextVars, interrupted, torn, foundVars>>
  BY RequestType DEF ParseToken, Requesting, elsewhere
<1>2. /\ request' \in [token : 1..Len(Token) + 1,
                       step : {"exists", "download", "write", "flag", "parse"}]
      /\ request'.step = "exists"
  BY <1>1, RequestNext DEF ParseToken
<1>3. TypeOK'
  BY <1>1, <1>2 DEF TypeOK, contextVars, foundVars
<1> QED
  BY <1>1, <1>2, <1>3 DEF Tokens, Requesting

LEMMA RemoveTokensInv == ASSUME TypeOK, Tokens, RemoveTokens PROVE TypeOK' /\ Tokens'
<1>1. /\ stage = "clean" /\ stage' = "done"
      /\ tokenfile' = [t \in Names |-> IF t \in created THEN "none" ELSE tokenfile[t]]
      /\ UNCHANGED <<created, request, overwritten, contextVars, interrupted, torn, foundVars>>
      /\ tokenfile \in [Names -> TokenFile] /\ created \subseteq Names
  BY DEF RemoveTokens, TypeOK, elsewhere
<1>2. tokenfile' \in [Names -> TokenFile]
  BY <1>1 DEF TokenFile
<1>3. TypeOK'
  BY <1>1, <1>2 DEF TypeOK, contextVars, foundVars
<1>4. \A t \in Names : tokenfile'[t] = IF t \in created THEN "none" ELSE tokenfile[t]
  BY <1>1
<1> QED
  BY <1>1, <1>3, <1>4 DEF Tokens, Requesting, Found

(* The steps of the contexts leave the tokens alone. *)
LEMMA TokensKept ==
  ASSUME Tokens, UNCHANGED <<tokenVars, stage, torn>>
  PROVE  Tokens'
<1>1. UNCHANGED <<tokenfile, created, request, stage, torn>>
  BY DEF tokenVars
<1> QED
  BY <1>1 DEF Tokens, Requesting, name
--------------------------------------------------------------------------------
LEMMA StageEndsInv == ASSUME IInv, StageEnds PROVE IInv'
<1>1. /\ UNCHANGED <<contextVars, tokenVars, interrupted, torn, foundVars>>
      /\ \/ stage = "request" /\ request.token > Len(Token) /\ stage' = "tests"
         \/ stage = "tests" /\ stage' = "clean"
  BY DEF StageEnds
<1>2. TypeOK' /\ Core'
  <2>1. TypeOK'
    BY <1>1 DEF IInv, TypeOK, contextVars, tokenVars, foundVars
  <2> QED
    BY <1>1, <2>1, SameContexts DEF IInv, Core
<1>3. Tokens'
  <2>1. Len(Token) \in Nat /\ request.token \in Nat
    BY TokenAssumption DEF IInv, TypeOK
  <2>2. \A s : ~Requesting(s)'
    BY <1>1 DEF Requesting
  <2>3. \A s : ~Requesting(s)
    BY <1>1, <2>1 DEF Requesting
  <2> QED
    BY <1>1, <2>2, <2>3 DEF IInv, Tokens, tokenVars
<1> QED
  BY <1>1, <1>2, <1>3 DEF IInv, Core

LEMMA InterruptInv == ASSUME IInv, Interrupt PROVE IInv'
<1>1. Core'
  BY InterruptCore DEF IInv, Core
<1>2. Tokens'
  <2>1. UNCHANGED <<tokenfile, created, request>> /\ torn = {}
    BY DEF Interrupt, tokenVars, IInv
  <2>2. CASE UNCHANGED stage
    <3>1. \A s : Requesting(s)' <=> Requesting(s)
      BY <2>1, <2>2 DEF Requesting
    <3>2. name' = name
      BY <2>1 DEF name
    <3> QED
      BY <2>1, <2>2, <3>1, <3>2 DEF IInv, Tokens
  <2>3. CASE stage # stage'
    <3>1. stack = <<>> /\ stage' = "clean" /\ ("token" \notin torn' => ~Requesting("flag"))
          /\ stage \in {"request", "tests"}
      BY <2>3 DEF Interrupt
    <3>2. \A s : ~Requesting(s)'
      BY <3>1 DEF Requesting
    <3> QED
      BY <2>1, <3>1, <3>2 DEF IInv, Tokens
  <2> QED
    BY <2>2, <2>3
<1> QED
  BY <1>1, <1>2 DEF IInv, Core, Interrupt

LEMMA NextInv == ASSUME IInv, [Next]_vars PROVE IInv'
<1>1. Core /\ TypeOK /\ Tokens
  BY DEF IInv, Core
<1>2. ASSUME Core', UNCHANGED others PROVE IInv'
  <2>1. Tokens'
    BY <1>1, <1>2, TokensKept DEF others
  <2> QED
    BY <1>2, <2>1 DEF IInv, Core, others
<1>3. ASSUME TypeOK', Tokens', UNCHANGED <<contextVars, interrupted, torn, foundVars>> PROVE IInv'
  <2>1. Core'
    BY <1>1, <1>3, SameContexts
  <2> QED
    BY <1>3, <2>1 DEF IInv, Core
<1>4. CASE Enter
  BY <1>1, <1>2, <1>4, EnterCore DEF Enter
<1>5. CASE MoveAside
  BY <1>1, <1>2, <1>5, MoveAsideCore DEF MoveAside
<1>6. CASE NoteMoved
  BY <1>1, <1>2, <1>6, NoteMovedCore DEF NoteMoved
<1>7. CASE MoveFails
  BY <1>1, <1>2, <1>7, MoveFailsCore DEF MoveFails
<1>8. CASE SetVar
  BY <1>1, <1>2, <1>8, SetVarCore DEF SetVar
<1>9. CASE BodyEnds
  BY <1>1, <1>2, <1>9, BodyEndsCore DEF BodyEnds
<1>10. CASE ResetVar
  BY <1>1, <1>2, <1>10, ResetVarCore DEF ResetVar
<1>11. CASE MoveBack
  BY <1>1, <1>2, <1>11, MoveBackCore DEF MoveBack
<1>12. CASE Exit
  BY <1>1, <1>2, <1>12, ExitCore DEF Exit
<1>13. CASE TokenExists
  BY <1>1, <1>3, <1>13, TokenExistsInv DEF TokenExists, elsewhere
<1>14. CASE Download
  BY <1>1, <1>3, <1>14, DownloadInv DEF Download, elsewhere
<1>15. CASE WriteToken
  BY <1>1, <1>3, <1>15, WriteTokenInv DEF WriteToken, elsewhere
<1>16. CASE FlagToken
  BY <1>1, <1>3, <1>16, FlagTokenInv DEF FlagToken, elsewhere
<1>17. CASE ParseToken
  BY <1>1, <1>3, <1>17, ParseTokenInv DEF ParseToken, elsewhere
<1>18. CASE RemoveTokens
  BY <1>1, <1>3, <1>18, RemoveTokensInv DEF RemoveTokens, elsewhere
<1>19. CASE StageEnds
  BY <1>19, StageEndsInv
<1>20. CASE Interrupt
  BY <1>20, InterruptInv
<1>21. CASE UNCHANGED vars
  <2>1. UNCHANGED <<contextVars, tokenVars, stage, interrupted, torn, foundVars>>
    BY <1>21 DEF vars
  <2>2. TypeOK'
    BY <1>1, <2>1 DEF TypeOK, contextVars, tokenVars, foundVars
  <2>3. Tokens'
    BY <1>1, <2>1, TokensKept
  <2> QED
    BY <1>3, <2>1, <2>2, <2>3
<1> QED
  BY <1>4, <1>5, <1>6, <1>7, <1>8, <1>9, <1>10, <1>11, <1>12, <1>13, <1>14, <1>15, <1>16,
     <1>17, <1>18, <1>19, <1>20, <1>21 DEF Next, Done

LEMMA Invariance == Spec => []IInv
  BY InitInv, NextInv, PTL DEF Spec

(* Every variable keeps its type: contexts stay within one another, and    *)
(* only what stood there before is hidden.                                 *)
THEOREM TypeCorrect == Spec => []TypeOK
<1>1. IInv => TypeOK
  BY DEF IInv
<1> QED
  BY <1>1, Invariance, PTL

(* With no context entered the environment is what it was, and the paths   *)
(* that are away are those whose move back was logged as failed: for any   *)
(* contexts, nested to any depth, with moves that fail and blocks that     *)
(* raise, unless Ctrl-C came while a context was entered or left.          *)
THEOREM FoundAgain == Spec => []CredentialsAsFound
<1>1. ASSUME IInv, stack = <<>>, "context" \notin torn PROVE env = envFound /\ hidden = stuck
  <2>1. TypeOK /\ AllOwed /\ OldKept /\ DOMAIN stack = {}
    BY <1>1 DEF IInv
  <2>2. hidden = stuck
    BY <2>1 DEF TypeOK, AllOwed
  <2>3. \A v \in Var : env[v] = envFound[v]
    BY <2>1 DEF OldKept
  <2>4. env \in [Var -> Setting] /\ envFound \in [Var -> {Unset, Found}]
    BY <2>1 DEF TypeOK
  <2> QED
    BY <2>2, <2>3, <2>4
<1>2. IInv => CredentialsAsFound
  BY <1>1 DEF CredentialsAsFound
<1> QED
  BY <1>2, Invariance, PTL

(* No token file of the run is left, for any list of tokens, repeated ones *)
(* too, and however the requests end.                                      *)
THEOREM TokensRemoved == Spec => []NoTokenLeft
<1>1. IInv => NoTokenLeft
  BY DEF IInv, Tokens, NoTokenLeft
<1> QED
  BY <1>1, Invariance, PTL

(* A token that was there before the run is taken by nothing but a request *)
(* that was told to overwrite it.                                          *)
THEOREM FoundTokenStays == Spec => FoundTokenKept
<1> DEFINE A == \A t \in Names : tokenfile[t] = Found /\ tokenfile'[t] # Found
                               => stage = "request" /\ t \in overwritten'
<1>1. ASSUME IInv, [Next]_vars PROVE [A]_vars
  <2>1. TypeOK /\ Tokens /\ tokenfile \in [Names -> TokenFile]
    BY <1>1 DEF IInv, TypeOK
  <2>2. CASE UNCHANGED tokenfile
    BY <2>2
  <2>3. CASE TokenExists
    <3>1. stage = "request" /\ name \in Names
      BY <2>1, <2>3, RequestType DEF TokenExists
    <3>2. \/ UNCHANGED tokenfile
          \/ /\ tokenfile' = [tokenfile EXCEPT ![name] = "none"]
             /\ overwritten' = overwritten \cup {name}
      BY <2>3 DEF TokenExists
    <3> HIDE DEF name
    <3> QED
      BY <2>1, <3>1, <3>2
  <2>4. CASE WriteToken
    <3>1. Requesting("write") /\ name \in Names /\ tokenfile[name] = "none"
      BY <2>1, <2>4, RequestType DEF WriteToken, Tokens
    <3>2. UNCHANGED tokenfile \/ tokenfile' = [tokenfile EXCEPT ![name] = "made"]
      BY <2>4 DEF WriteToken
    <3> HIDE DEF name
    <3> QED
      BY <2>1, <3>1, <3>2 DEF Found
  <2>5. CASE RemoveTokens
    BY <2>1, <2>5 DEF RemoveTokens, Tokens
  <2> QED
    BY <1>1, <2>2, <2>3, <2>4, <2>5 DEF Next, Enter, MoveAside, NoteMoved, MoveFails, SetVar,
       BodyEnds, ResetVar, MoveBack, Exit, Download, FlagToken, ParseToken, StageEnds, Interrupt,
       Done, vars, others, tokenVars
<1>2. IInv /\ [Next]_vars => [A]_vars
  BY <1>1
<1> QED
  BY <1>2, Invariance, PTL DEF Spec, FoundTokenKept

--------------------------------------------------------------------------------
(* What holds while a block runs, for any contexts, nested to any depth:   *)
(* no file that a context around it hides can be found, and the innermost  *)
(* context that speaks of a variable decides it.                           *)

Speaks(f, v) == \E k \in DOMAIN f.context.items : f.context.items[k][1] = v
Wants(f, v, x) ==
  \E k \in DOMAIN f.context.items : f.context.items[k][1] = v /\ f.context.items[k][2] = x

(* x is what the innermost of the first n frames of s wants for v, or what *)
(* v was before the run, in e, if none of them speaks of it.               *)
Right(s, e, n, v, x) ==
  \/ x = e[v] /\ \A i \in 1..n : ~Speaks(s[i], v)
  \/ \E i \in 1..n : Wants(s[i], v, x) /\ \A j \in (i + 1)..n : ~Speaks(s[j], v)

(* The paths of f that it has passed in "move" are not among those that    *)
(* can be found, until "back".                                             *)
Passed(f, k) ==
  \/ f.phase \in {"set", "body", "reset"}
  \/ f.phase = "move" /\ k < f.at
  \/ f.phase = "flag" /\ k <= f.at
Away(f, there) ==
  \A k \in DOMAIN f.context.files : Passed(f, k) => f.context.files[k] \notin there

(* The path was moved by f. *)
Took(f, p) == p \in f.moved \/ (f.phase = "flag" /\ p = f.context.files[f.at])

(* An inner frame takes nothing that an outer one hides, and so moves      *)
(* nothing of it back.                                                     *)
FilesInv ==
  /\ \A i \in DOMAIN stack : Away(stack[i], present \ hidden)
  /\ \A i, j \in DOMAIN stack : i < j =>
       \A p \in Path : Took(stack[j], p) =>
         \A k \in DOMAIN stack[i].context.files : stack[i].context.files[k] # p

(* A frame keeps what was right before it, and restores that.              *)
EnvInv ==
  /\ \A i \in DOMAIN stack : \A v \in Var :
       Holds(stack[i], v) => Right(stack, envFound, i - 1, v, stack[i].old[v])
  /\ stack = <<>> => env = envFound
  /\ stack # <<>> => \A v \in Var :
       /\ Holds(Top, v) => Wants(Top, v, env[v])
       /\ ~Holds(Top, v) => Right(stack, envFound, Len(stack) - 1, v, env[v])

(* After Ctrl-C no block goes on. *)
Leaving == interrupted /\ stack # <<>> => raising /\ Top.phase \in {"reset", "back"}

BlockInv == FilesInv /\ Leaving /\ (~interrupted => EnvInv)

--------------------------------------------------------------------------------
LEMMA InitBlock == Init => BlockInv
<1> SUFFICES ASSUME Init PROVE BlockInv
  OBVIOUS
<1>1. DOMAIN stack = {} /\ stack = <<>> /\ env = envFound
  BY DEF Init
<1> QED
  BY <1>1 DEF BlockInv, FilesInv, Leaving, EnvInv

(* Replacing the last frame keeps what is right below it. *)
LEMMA FilesStep ==
  ASSUME TypeOK, Frames, FilesInv, stack # <<>>, NEW f \in Frame, Put(f),
         f.context = Top.context, UNCHANGED present, Away(f, present' \ hidden'),
         \A p \in Path : Took(f, p) => Took(Top, p) \/ p \in present \ hidden,
         \A p \in Path : p \in hidden /\ p \notin hidden' => Took(Top, p)
  PROVE  FilesInv'
<1> DEFINE n == Len(stack)
<1>1. Len(stack') = n /\ stack'[n] = f /\ stack' \in Seq(Frame)
      /\ \A i \in DOMAIN stack : i # n => stack'[i] = stack[i]
  BY PutFacts DEF TypeOK, Put
<1>2. DOMAIN stack' = 1..n /\ DOMAIN stack = 1..n /\ n \in 1..n /\ n \in Nat
  BY <1>1 DEF TypeOK
<1>3. present \subseteq Path /\ hidden \subseteq present
  BY DEF TypeOK
<1>4. ASSUME NEW i \in 1..n, i # n, NEW k \in DOMAIN stack[i].context.files
      PROVE  /\ stack[i].context.files[k] \notin present \ hidden
             /\ \A p \in Path : Took(Top, p) => stack[i].context.files[k] # p
  <2>1. i < n /\ stack[i].phase = "body"
    BY <1>2, <1>4 DEF Frames
  <2>2. Away(stack[i], present \ hidden)
    BY <1>2 DEF FilesInv
  <2> QED
    BY <1>2, <1>4, <2>1, <2>2 DEF FilesInv, Away, Passed, Top
<1> HIDE DEF n
<1>5. \A i \in 1..n : Away(stack'[i], present' \ hidden')
  <2> SUFFICES ASSUME NEW i \in 1..n, i # n, NEW k \in DOMAIN stack'[i].context.files,
                      stack'[i].context.files[k] \in present \ hidden'
               PROVE  FALSE
    BY <1>1 DEF Away
  <2>1. stack'[i] = stack[i]
    BY <1>1, <1>2
  <2> QED
    BY <1>3, <1>4, <2>1
<1>6. ASSUME NEW i \in 1..n, NEW j \in 1..n, i < j, NEW p \in Path, Took(stack'[j], p),
             NEW k \in DOMAIN stack'[i].context.files
      PROVE  stack'[i].context.files[k] # p
  <2>1. i # n /\ stack'[i] = stack[i]
    BY <1>1, <1>2, <1>6
  <2>2. CASE j = n
    BY <1>1, <1>4, <1>6, <2>1, <2>2
  <2>3. CASE j # n
    <3>1. stack'[j] = stack[j]
      BY <1>1, <1>2, <2>3
    <3> QED
      BY <1>2, <1>6, <2>1, <3>1 DEF FilesInv
  <2> QED
    BY <2>2, <2>3
<1> QED
  BY <1>2, <1>5, <1>6 DEF FilesInv, Took, Away, Passed

LEMMA EnvStep ==
  ASSUME TypeOK, EnvInv, stack # <<>>, NEW f \in Frame, Put(f), f.context = Top.context,
         UNCHANGED envFound,
         \A v \in Var :
           /\ Holds(f, v) /\ Holds(Top, v) => f.old[v] = Top.old[v] /\ env'[v] = env[v]
           /\ Holds(f, v) /\ ~Holds(Top, v) => f.old[v] = env[v] /\ Wants(f, v, env'[v])
           /\ ~Holds(f, v) /\ Holds(Top, v) => env'[v] = Top.old[v]
           /\ ~Holds(f, v) /\ ~Holds(Top, v) => env'[v] = env[v]
  PROVE  EnvInv'
<1> DEFINE n == Len(stack)
<1>1. Len(stack') = n /\ stack'[n] = f /\ stack' \in Seq(Frame) /\ stack' # <<>>
      /\ \A i \in DOMAIN stack : i # n => stack'[i] = stack[i]
  BY PutFacts DEF TypeOK, Put
<1>2. DOMAIN stack' = 1..n /\ DOMAIN stack = 1..n /\ n \in 1..n /\ n \in Nat
      /\ Top = stack[n] /\ Top' = f
  BY <1>1 DEF TypeOK, Top
<1>3. \A v, x : Wants(f, v, x) <=> Wants(Top, v, x)
  BY DEF Wants
<1>4. /\ \A v \in Var : Holds(Top, v) =>
           Wants(Top, v, env[v]) /\ Right(stack, envFound, n - 1, v, Top.old[v])
      /\ \A v \in Var : ~Holds(Top, v) => Right(stack, envFound, n - 1, v, env[v])
      /\ \A i \in 1..n : \A v \in Var :
           Holds(stack[i], v) => Right(stack, envFound, i - 1, v, stack[i].old[v])
  BY <1>2 DEF EnvInv
<1> HIDE DEF n
<1>5. ASSUME NEW m \in 0..(n - 1), NEW v, NEW x, Right(stack, envFound, m, v, x)
      PROVE  Right(stack', envFound', m, v, x)
  <2>1. \A i \in 1..m : stack'[i] = stack[i]
    BY <1>1, <1>2
  <2> QED
    BY <1>2, <1>5, <2>1 DEF Right, Speaks, Wants
<1>6. ASSUME NEW v \in Var
      PROVE  /\ Holds(f, v) => Wants(f, v, env'[v]) /\ Right(stack', envFound', n - 1, v, f.old[v])
             /\ ~Holds(f, v) => Right(stack', envFound', n - 1, v, env'[v])
  <2>1. n - 1 \in 0..(n - 1)
    BY <1>2
  <2>2. \A x : Right(stack, envFound, n - 1, v, x) => Right(stack', envFound', n - 1, v, x)
    BY <1>5, <2>1
  <2> QED
    BY <1>3, <1>4, <2>2
<1> QED
  BY <1>1, <1>2, <1>4, <1>5, <1>6 DEF EnvInv

(* One step of the last frame, which becomes f. *)
LEMMA TopStep ==
  ASSUME TypeOK, Frames, BlockInv, stack # <<>>, NEW f \in Frame, Put(f),
         f.context = Top.context, UNCHANGED <<present, envFound, interrupted>>,
         interrupted => raising' /\ f.phase \in {"reset", "back"},
         Away(f, present' \ hidden'),
         \A p \in Path : Took(f, p) => Took(Top, p) \/ p \in present \ hidden,
         \A p \in Path : p \in hidden /\ p \notin hidden' => Took(Top, p),
         \A v \in Var :
           /\ Holds(f, v) /\ Holds(Top, v) => f.old[v] = Top.old[v] /\ env'[v] = env[v]
           /\ Holds(f, v) /\ ~Holds(Top, v) => f.old[v] = env[v] /\ Wants(f, v, env'[v])
           /\ ~Holds(f, v) /\ Holds(Top, v) => env'[v] = Top.old[v]
           /\ ~Holds(f, v) /\ ~Holds(Top, v) => env'[v] = env[v]
  PROVE  BlockInv'
<1>1. FilesInv'
  BY FilesStep DEF BlockInv
<1>2. ~interrupted' => EnvInv'
  BY EnvStep DEF BlockInv
<1>3. stack' # <<>> /\ Top' = f
  BY PutFacts DEF TypeOK, Put, Top
<1>4. Leaving'
  BY <1>3 DEF Leaving
<1> QED
  BY <1>1, <1>2, <1>4 DEF BlockInv

(* The frame that a Goto or a Step puts in its place. *)
LEMMA GotoTop ==
  ASSUME TypeOK, stack # <<>>, NEW phase \in Phase, Goto(phase)
  PROVE  \E f \in Frame : /\ Put(f) /\ f.phase = phase /\ f.at = 1 /\ f.context = Top.context
                          /\ f.moved = Top.moved /\ f.old = Top.old
<1> DEFINE f == [Top EXCEPT !.phase = phase, !.at = 1]
<1>1. Top \in Frame /\ Put(f)
  BY TopType DEF Goto
<1>2. f \in Frame /\ f.phase = phase /\ f.at = 1 /\ f.context = Top.context
      /\ f.moved = Top.moved /\ f.old = Top.old
  BY <1>1 DEF Frame
<1> QED
  BY <1>1, <1>2

LEMMA NextTop ==
  ASSUME TypeOK, stack # <<>>, Step
  PROVE  \E f \in Frame : /\ Put(f) /\ f.phase = Top.phase /\ f.at = Top.at + 1
                          /\ f.context = Top.context /\ f.moved = Top.moved /\ f.old = Top.old
<1> DEFINE f == [Top EXCEPT !.at = @ + 1]
<1>1. Top \in Frame /\ Put(f) /\ Top.at + 1 \in Nat
  BY TopType DEF Step
<1>2. f \in Frame /\ f.phase = Top.phase /\ f.at = Top.at + 1 /\ f.context = Top.context
      /\ f.moved = Top.moved /\ f.old = Top.old
  BY <1>1 DEF Frame
<1> QED
  BY <1>1, <1>2

(* What is known of the last frame before each of its steps. *)
LEMMA BlockTop ==
  ASSUME Core, BlockInv, stack # <<>>
  PROVE  /\ TypeOK /\ Frames /\ FrameOK(Top) /\ Top \in Frame
         /\ Away(Top, present \ hidden) /\ Leaving
         /\ Top.at \in Nat /\ Top.at >= 1 /\ Top.context \in Context
         /\ Files = Top.context.files /\ Items = Top.context.items
         /\ Files \in Seq(Path) /\ Items \in Seq(Var \X (Value \cup {Unset}))
<1>1. TypeOK /\ Frames
  BY DEF Core
<1>2. FrameOK(Top) /\ Top.at >= 1 /\ Top \in Frame
  BY <1>1, TopType, TopOK
<1>3. Len(stack) \in DOMAIN stack
  BY <1>1, TopType
<1>4. Away(Top, present \ hidden)
  BY <1>3 DEF BlockInv, FilesInv, Top
<1> QED
  BY <1>1, <1>2, <1>4, TopType DEF BlockInv, Files, Items, Frame

--------------------------------------------------------------------------------
(* The steps of a context.                                                 *)

LEMMA MoveAsideBlock == ASSUME Core, BlockInv, MoveAside PROVE BlockInv'
<1>1. /\ stack # <<>> /\ Top.phase = "move"
      /\ UNCHANGED <<env, raising, present, envFound, interrupted>>
  BY DEF MoveAside, In, others, foundVars
<1>2. ~interrupted
  BY <1>1, BlockTop DEF Leaving
<1>3. \A v : ~Holds(Top, v)
  BY <1>1 DEF Holds
<1>4. CASE Top.at > Len(Files) /\ Goto("set") /\ UNCHANGED hidden
  <2>1. PICK f \in Frame : /\ Put(f) /\ f.phase = "set" /\ f.at = 1 /\ f.context = Top.context
                           /\ f.moved = Top.moved /\ f.old = Top.old
    BY <1>1, <1>4, BlockTop, GotoTop DEF Phase
  <2>2. Away(f, present' \ hidden')
    BY <1>1, <1>4, <2>1, BlockTop DEF Away, Passed
  <2>3. \A p \in Path : Took(f, p) => Took(Top, p)
    BY <2>1 DEF Took
  <2>4. \A v : ~Holds(f, v)
    BY <1>1, <2>1, BlockTop DEF Holds
  <2> QED
    BY <1>1, <1>2, <1>3, <1>4, <2>1, <2>2, <2>3, <2>4, BlockTop, TopStep
<1>5. CASE /\ Top.at <= Len(Files) /\ Files[Top.at] \notin present \ hidden /\ Step
           /\ UNCHANGED hidden
  <2>1. PICK f \in Frame : /\ Put(f) /\ f.phase = "move" /\ f.at = Top.at + 1
                           /\ f.context = Top.context /\ f.moved = Top.moved /\ f.old = Top.old
    BY <1>1, <1>5, BlockTop, NextTop
  <2>2. Away(f, present' \ hidden')
    BY <1>1, <1>5, <2>1, BlockTop DEF Away, Passed
  <2>3. \A p \in Path : Took(f, p) => Took(Top, p)
    BY <2>1 DEF Took
  <2>4. \A v : ~Holds(f, v)
    BY <2>1 DEF Holds
  <2> QED
    BY <1>1, <1>2, <1>3, <1>5, <2>1, <2>2, <2>3, <2>4, BlockTop, TopStep
<1>6. CASE /\ Top.at <= Len(Files) /\ Files[Top.at] \in present \ hidden
           /\ hidden' = hidden \cup {Files[Top.at]}
           /\ Put([Top EXCEPT !.phase = "flag"])
  <2> DEFINE f == [Top EXCEPT !.phase = "flag"]
  <2>1. /\ f \in Frame /\ Put(f) /\ f.phase = "flag" /\ f.at = Top.at /\ f.context = Top.context
        /\ f.moved = Top.moved /\ f.old = Top.old
    BY <1>1, <1>6, BlockTop DEF Frame, Phase
  <2> HIDE DEF f
  <2>2. Away(f, present' \ hidden')
    BY <1>1, <1>6, <2>1, BlockTop DEF Away, Passed
  <2>3. \A p \in Path : Took(f, p) => Took(Top, p) \/ p \in present \ hidden
    BY <1>1, <1>6, <2>1, BlockTop DEF Took
  <2>4. \A v : ~Holds(f, v)
    BY <2>1 DEF Holds
  <2> QED
    BY <1>1, <1>2, <1>3, <1>6, <2>1, <2>2, <2>3, <2>4, BlockTop, TopStep
<1> QED
  BY <1>4, <1>5, <1>6 DEF MoveAside

LEMMA NoteMovedBlock == ASSUME Core, BlockInv, NoteMoved PROVE BlockInv'
<1>1. /\ stack # <<>> /\ Top.phase = "flag"
      /\ UNCHANGED <<env, hidden, raising, present, envFound, interrupted>>
  BY DEF NoteMoved, In, others, foundVars
<1>2. ~interrupted /\ Top.at \in DOMAIN Files /\ Files[Top.at] \in Path
  BY <1>1, BlockTop DEF Leaving, FrameOK
<1> DEFINE f == [Top EXCEPT !.moved = @ \cup {Files[Top.at]}, !.phase = "move", !.at = @ + 1]
<1>3. /\ f \in Frame /\ Put(f) /\ f.phase = "move" /\ f.at = Top.at + 1
      /\ f.context = Top.context /\ f.moved = Top.moved \cup {Files[Top.at]} /\ f.old = Top.old
  <2>1. Top.at + 1 \in Nat /\ Top.moved \cup {Files[Top.at]} \in SUBSET Path /\ "move" \in Phase
    BY <1>1, <1>2, BlockTop, TopType DEF Phase
  <2>2. Put(f) /\ Top \in Frame
    BY <1>1, BlockTop DEF NoteMoved
  <2> QED
    BY <2>1, <2>2 DEF Frame
<1> HIDE DEF f
<1>4. Away(f, present' \ hidden')
  BY <1>1, <1>3, BlockTop DEF Away, Passed
<1>5. \A p \in Path : Took(f, p) => Took(Top, p)
  BY <1>1, <1>3, BlockTop DEF Took
<1>6. \A v : ~Holds(f, v) /\ ~Holds(Top, v)
  BY <1>1, <1>3 DEF Holds
<1> QED
  BY <1>1, <1>2, <1>3, <1>4, <1>5, <1>6, BlockTop, TopStep

LEMMA MoveFailsBlock == ASSUME Core, BlockInv, MoveFails PROVE BlockInv'
<1>1. /\ stack # <<>> /\ Top.phase = "move" /\ Goto("back")
      /\ UNCHANGED <<env, hidden, present, envFound, interrupted>>
  BY DEF MoveFails, In, others, foundVars
<1>2. ~interrupted
  BY <1>1, BlockTop DEF Leaving
<1>3. PICK f \in Frame : /\ Put(f) /\ f.phase = "back" /\ f.at = 1 /\ f.context = Top.context
                         /\ f.moved = Top.moved /\ f.old = Top.old
  BY <1>1, BlockTop, GotoTop DEF Phase
<1>4. Away(f, present' \ hidden')
  BY <1>3 DEF Away, Passed
<1>5. \A p \in Path : Took(f, p) => Took(Top, p)
  BY <1>3 DEF Took
<1>6. \A v : ~Holds(f, v) /\ ~Holds(Top, v)
  BY <1>1, <1>3 DEF Holds
<1> QED
  BY <1>1, <1>2, <1>3, <1>4, <1>5, <1>6, BlockTop, TopStep

LEMMA SetVarBlock == ASSUME Core, BlockInv, SetVar PROVE BlockInv'
<1>1. /\ stack # <<>> /\ Top.phase = "set"
      /\ UNCHANGED <<hidden, present, envFound, interrupted>>
  BY DEF SetVar, In, others, foundVars
<1>2. ~interrupted
  BY <1>1, BlockTop DEF Leaving
<1>3. CASE Top.at > Len(Items) /\ Goto("body") /\ UNCHANGED env
  <2>1. PICK f \in Frame : /\ Put(f) /\ f.phase = "body" /\ f.at = 1 /\ f.context = Top.context
                           /\ f.moved = Top.moved /\ f.old = Top.old
    BY <1>1, <1>3, BlockTop, GotoTop DEF Phase
  <2>2. Away(f, present' \ hidden')
    BY <1>1, <2>1, BlockTop DEF Away, Passed
  <2>3. \A p \in Path : Took(f, p) => Took(Top, p)
    BY <2>1 DEF Took
  <2>4. \A v : Holds(f, v) <=> Holds(Top, v)
    BY <1>1, <1>3, <2>1, BlockTop DEF Holds
  <2> QED
    BY <1>1, <1>2, <1>3, <2>1, <2>2, <2>3, <2>4, BlockTop, TopStep
<1>4. CASE Top.at <= Len(Items)
  <2> DEFINE key == Items[Top.at][1]
             old == [v \in DOMAIN Top.old \cup {key} |-> IF v = key THEN env[key] ELSE Top.old[v]]
             f == [Top EXCEPT !.at = Top.at + 1, !.old = old]
  <2>1. /\ Put(f) /\ env' = [env EXCEPT ![key] = Items[Top.at][2]]
        /\ Top.at \in DOMAIN Items /\ Top.at + 1 \in Nat /\ env \in [Var -> Setting]
    BY <1>1, <1>4, BlockTop DEF SetVar, TypeOK
  <2>2. key \in Var /\ Items[Top.at] \in Var \X (Value \cup {Unset}) /\ env[key] \in Setting
    BY <1>1, <2>1, BlockTop
  <2>3. old \in UNION {[V -> Setting] : V \in SUBSET Var}
    <3>1. PICK V \in SUBSET Var : Top.old \in [V -> Setting]
      BY <1>1, BlockTop DEF Frame
    <3>2. old \in [V \cup {key} -> Setting] /\ V \cup {key} \in SUBSET Var
      BY <2>2, <3>1
    <3> QED
      BY <3>2
  <2>4. old[key] = env[key] /\ \A v \in DOMAIN Top.old : v # key => old[v] = Top.old[v]
    OBVIOUS
  <2> HIDE DEF old
  <2>5. f \in Frame /\ f.phase = "set" /\ f.at = Top.at + 1 /\ f.context = Top.context
        /\ f.moved = Top.moved /\ f.old = old
    BY <1>1, <2>1, <2>3, BlockTop DEF Frame
  <2> HIDE DEF f
  <2>6. \A i, j \in DOMAIN Items : Items[i][1] = Items[j][1] => i = j
    BY <1>1, BlockTop, ContextAssumption
  <2>7. \A v : Holds(f, v) <=> Holds(Top, v) \/ v = key
    BY <1>1, <2>1, <2>5, BlockTop DEF Holds
  <2>8. ~Holds(Top, key)
    BY <1>1, <2>1, <2>6, BlockTop DEF Holds
  <2>9. \A v \in Var : Holds(Top, v) => v # key /\ f.old[v] = Top.old[v] /\ env'[v] = env[v]
    BY <1>1, <2>1, <2>4, <2>5, <2>8, BlockTop DEF FrameOK
  <2>10. f.old[key] = env[key] /\ env'[key] = Items[Top.at][2]
         /\ \A v \in Var : v # key => env'[v] = env[v]
    BY <2>1, <2>2, <2>4, <2>5
  <2>11. Wants(f, key, env'[key])
    BY <1>1, <2>1, <2>5, <2>10, BlockTop DEF Wants
  <2>12. Away(f, present' \ hidden')
    BY <1>1, <2>5, BlockTop DEF Away, Passed
  <2>13. \A p \in Path : Took(f, p) => Took(Top, p)
    BY <1>1, <2>5 DEF Took
  <2> HIDE DEF key
  <2> QED
    BY <1>1, <1>2, <2>1, <2>5, <2>7, <2>9, <2>10, <2>11, <2>12, <2>13, BlockTop, TopStep
<1> QED
  BY <1>1, <1>3, <1>4, BlockTop DEF SetVar

LEMMA BodyEndsBlock == ASSUME Core, BlockInv, BodyEnds PROVE BlockInv'
<1>1. /\ stack # <<>> /\ Top.phase = "body" /\ Goto("reset")
      /\ UNCHANGED <<env, hidden, present, envFound, interrupted>>
  BY DEF BodyEnds, In, others, foundVars
<1>2. ~interrupted
  BY <1>1, BlockTop DEF Leaving
<1>3. PICK f \in Frame : /\ Put(f) /\ f.phase = "reset" /\ f.at = 1 /\ f.context = Top.context
                         /\ f.moved = Top.moved /\ f.old = Top.old
  BY <1>1, BlockTop, GotoTop DEF Phase
<1>4. Away(f, present' \ hidden')
  BY <1>1, <1>3, BlockTop DEF Away, Passed
<1>5. \A p \in Path : Took(f, p) => Took(Top, p)
  BY <1>3 DEF Took
<1>6. \A v : Holds(f, v) <=> Holds(Top, v)
  BY <1>1, <1>3, BlockTop DEF Holds
<1> QED
  BY <1>1, <1>2, <1>3, <1>4, <1>5, <1>6, BlockTop, TopStep

LEMMA ResetVarBlock == ASSUME Core, BlockInv, ResetVar PROVE BlockInv'
<1>1. /\ stack # <<>> /\ Top.phase = "reset"
      /\ UNCHANGED <<hidden, raising, present, envFound, interrupted>>
  BY DEF ResetVar, In, others, foundVars
<1>2. interrupted => raising'
  BY <1>1, BlockTop DEF Leaving
<1>3. CASE Top.at > Len(Items) /\ Goto("back") /\ UNCHANGED env
  <2>1. PICK f \in Frame : /\ Put(f) /\ f.phase = "back" /\ f.at = 1 /\ f.context = Top.context
                           /\ f.moved = Top.moved /\ f.old = Top.old
    BY <1>1, <1>3, BlockTop, GotoTop DEF Phase
  <2>2. Away(f, present' \ hidden')
    BY <2>1 DEF Away, Passed
  <2>3. \A p \in Path : Took(f, p) => Took(Top, p)
    BY <2>1 DEF Took
  <2>4. \A v : ~Holds(f, v) /\ ~Holds(Top, v)
    BY <1>1, <1>3, <2>1, BlockTop DEF Holds
  <2> QED
    BY <1>1, <1>2, <1>3, <2>1, <2>2, <2>3, <2>4, BlockTop, TopStep
<1>4. CASE Top.at <= Len(Items)
  <2> DEFINE key == Items[Top.at][1]
  <2>1. /\ Step /\ env' = [env EXCEPT ![key] = Top.old[key]]
        /\ Top.at \in DOMAIN Items /\ env \in [Var -> Setting] /\ key \in Var
    BY <1>1, <1>4, BlockTop DEF ResetVar, TypeOK
  <2>2. PICK f \in Frame : /\ Put(f) /\ f.phase = "reset" /\ f.at = Top.at + 1
                           /\ f.context = Top.context /\ f.moved = Top.moved /\ f.old = Top.old
    BY <1>1, <2>1, BlockTop, NextTop
  <2>3. Holds(Top, key)
    BY <1>1, <2>1, BlockTop DEF Holds
  <2>4. \A i, j \in DOMAIN Items : Items[i][1] = Items[j][1] => i = j
    BY <1>1, BlockTop, ContextAssumption
  <2>5. \A k \in DOMAIN Items : Items[k][1] = key <=> k = Top.at
    BY <2>1, <2>4
  <2>6. env'[key] = Top.old[key] /\ \A v \in Var : v # key => env'[v] = env[v]
    BY <2>1
  <2> HIDE DEF key
  <2>7. \A k \in DOMAIN Items : k >= Top.at + 1 <=> k >= Top.at /\ k # Top.at
    BY <1>1, BlockTop
  <2>8. \A v : Holds(f, v) <=> Holds(Top, v) /\ v # key
    BY <1>1, <2>2, <2>5, <2>7, BlockTop DEF Holds
  <2>9. Away(f, present' \ hidden')
    BY <1>1, <2>2, BlockTop DEF Away, Passed
  <2>10. \A p \in Path : Took(f, p) => Took(Top, p)
    BY <2>2 DEF Took
  <2> QED
    BY <1>1, <1>2, <2>1, <2>2, <2>3, <2>6, <2>8, <2>9, <2>10, BlockTop, TopStep
<1> QED
  BY <1>1, <1>3, <1>4, BlockTop DEF ResetVar

LEMMA MoveBackBlock == ASSUME Core, BlockInv, MoveBack PROVE BlockInv'
<1>1. /\ stack # <<>> /\ Top.phase = "back" /\ Step
      /\ UNCHANGED <<env, raising, present, envFound, interrupted>>
  BY DEF MoveBack, In, others, foundVars
<1>2. interrupted => raising'
  BY <1>1, BlockTop DEF Leaving
<1>3. PICK f \in Frame : /\ Put(f) /\ f.phase = "back" /\ f.at = Top.at + 1
                         /\ f.context = Top.context /\ f.moved = Top.moved /\ f.old = Top.old
  BY <1>1, BlockTop, NextTop
<1>4. Away(f, present' \ hidden')
  BY <1>3 DEF Away, Passed
<1>5. \A p \in Path : Took(f, p) => Took(Top, p)
  BY <1>3 DEF Took
<1>6. \A v : ~Holds(f, v) /\ ~Holds(Top, v)
  BY <1>1, <1>3 DEF Holds
<1>7. \A p \in Path : p \in hidden /\ p \notin hidden' => Took(Top, p)
  BY DEF MoveBack, Took
<1> QED
  BY <1>1, <1>2, <1>3, <1>4, <1>5, <1>6, <1>7, BlockTop, TopStep

--------------------------------------------------------------------------------
(* In a block, what the environment holds is right for all of the frames.  *)
LEMMA RightInBody ==
  ASSUME TypeOK, EnvInv, stack # <<>>, Top.phase = "body", NEW v \in Var
  PROVE  Right(stack, envFound, Len(stack), v, env[v])
<1> DEFINE n == Len(stack)
<1>1. n \in Nat /\ n >= 1 /\ Top = stack[n]
  BY DEF TypeOK, Top
<1>2. Holds(Top, v) <=> Speaks(Top, v)
  BY DEF Holds, Speaks
<1>3. /\ Holds(Top, v) => Wants(Top, v, env[v])
      /\ ~Holds(Top, v) => Right(stack, envFound, n - 1, v, env[v])
  BY DEF EnvInv
<1> HIDE DEF n
<1>4. CASE Holds(Top, v)
  BY <1>1, <1>3, <1>4 DEF Right, n
<1>5. CASE ~Holds(Top, v)
  <2>1. ~Speaks(stack[n], v) /\ Right(stack, envFound, n - 1, v, env[v])
    BY <1>1, <1>2, <1>3, <1>5
  <2>2. CASE env[v] = envFound[v] /\ \A i \in 1..(n - 1) : ~Speaks(stack[i], v)
    <3>1. \A i \in 1..n : i \in 1..(n - 1) \/ i = n
      BY <1>1
    <3> QED
      BY <2>1, <2>2, <3>1 DEF Right, n
  <2>3. CASE \E i \in 1..(n - 1) :
               Wants(stack[i], v, env[v]) /\ \A j \in (i + 1)..(n - 1) : ~Speaks(stack[j], v)
    <3>1. PICK i \in 1..(n - 1) :
            Wants(stack[i], v, env[v]) /\ \A j \in (i + 1)..(n - 1) : ~Speaks(stack[j], v)
      BY <2>3
    <3>2. i \in 1..n /\ \A j \in (i + 1)..n : j \in (i + 1)..(n - 1) \/ j = n
      BY <1>1
    <3> QED
      BY <2>1, <3>1, <3>2 DEF Right, n
  <2> QED
    BY <2>1, <2>2, <2>3 DEF Right
<1> QED
  BY <1>4, <1>5

LEMMA EnterBlock == ASSUME Core, BlockInv, Enter PROVE BlockInv'
<1> DEFINE n == Len(stack)
<1>1. /\ UNCHANGED <<env, hidden, envFound, present, interrupted>> /\ ~interrupted
      /\ TypeOK /\ FilesInv /\ EnvInv
  BY DEF Enter, others, foundVars, Core, BlockInv
<1>2. PICK c \in Context :
        stack' = Append(stack, [context |-> c, phase |-> "move", at |-> 1,
                                moved |-> {}, old |-> [v \in {} |-> Unset]])
  BY DEF Enter
<1> DEFINE g == [context |-> c, phase |-> "move", at |-> 1,
                 moved |-> {}, old |-> [v \in {} |-> Unset]]
<1>3. c.files \in Seq(Path)
  BY ContextAssumption
<1>4. /\ Away(g, present' \ hidden') /\ (\A p : ~Took(g, p)) /\ (\A v : ~Holds(g, v))
  BY <1>3 DEF Away, Passed, Took, Holds
<1>5. stack \in Seq(Frame) /\ n \in Nat /\ DOMAIN stack = 1..n
  BY <1>1 DEF TypeOK
<1> HIDE DEF g
<1>6. /\ Len(stack') = n + 1 /\ DOMAIN stack' = 1..(n + 1) /\ stack' # <<>>
      /\ stack'[n + 1] = g /\ \A i \in 1..n : stack'[i] = stack[i]
  BY <1>2, <1>5 DEF g
<1>7. \A v \in Var : Right(stack, envFound, n, v, env[v])
  <2>1. CASE stack = <<>>
    BY <1>1, <2>1 DEF EnvInv, Right
  <2>2. CASE stack # <<>>
    BY <1>1, <2>2, RightInBody DEF Enter, In
  <2> QED
    BY <2>1, <2>2
<1>8. Top' = g
  BY <1>6 DEF Top
<1> HIDE DEF n
<1>9. FilesInv'
  <2>1. ASSUME NEW i \in 1..(n + 1) PROVE Away(stack'[i], present' \ hidden')
    <3>1. CASE i = n + 1
      BY <1>4, <1>6, <3>1
    <3>2. CASE i \in 1..n
      <4>1. Away(stack[i], present \ hidden) /\ stack'[i] = stack[i]
        BY <1>1, <1>5, <1>6, <3>2 DEF FilesInv
      <4> QED
        BY <1>1, <4>1
    <3> QED
      BY <1>5, <3>1, <3>2
  <2>2. ASSUME NEW i \in 1..(n + 1), NEW j \in 1..(n + 1), i < j, NEW p \in Path,
               Took(stack'[j], p)
        PROVE  \A k \in DOMAIN stack'[i].context.files : stack'[i].context.files[k] # p
    <3>1. i \in 1..n /\ j \in 1..n
      BY <1>4, <1>5, <1>6, <2>2
    <3> QED
      BY <1>1, <1>5, <1>6, <2>2, <3>1 DEF FilesInv
  <2> QED
    BY <1>6, <2>1, <2>2 DEF FilesInv
<1>10. ASSUME NEW m \in 0..n, NEW v, NEW x, Right(stack, envFound, m, v, x)
       PROVE  Right(stack', envFound', m, v, x)
  <2>1. \A i \in 1..m : stack'[i] = stack[i]
    BY <1>5, <1>6
  <2> QED
    BY <1>1, <1>5, <1>10, <2>1 DEF Right
<1>11. EnvInv'
  <2>1. ASSUME NEW i \in 1..(n + 1), NEW v \in Var, Holds(stack'[i], v)
        PROVE  Right(stack', envFound', i - 1, v, stack'[i].old[v])
    <3>1. i \in 1..n /\ i - 1 \in 0..n /\ stack'[i] = stack[i]
      BY <1>4, <1>5, <1>6, <2>1
    <3>2. Right(stack, envFound, i - 1, v, stack[i].old[v])
      BY <1>1, <1>5, <2>1, <3>1 DEF EnvInv
    <3> QED
      BY <1>10, <3>1, <3>2
  <2>2. ASSUME NEW v \in Var PROVE Right(stack', envFound', n, v, env'[v])
    <3>1. n \in 0..n
      BY <1>5
    <3> QED
      BY <1>1, <1>7, <1>10, <3>1
  <2>3. Len(stack') - 1 = n
    BY <1>5, <1>6
  <2> QED
    BY <1>4, <1>6, <1>8, <2>1, <2>2, <2>3 DEF EnvInv
<1> QED
  BY <1>1, <1>9, <1>11 DEF BlockInv, Leaving

LEMMA ExitBlock == ASSUME Core, BlockInv, Exit PROVE BlockInv'
<1> DEFINE n == Len(stack)
           m == n - 1
           outer == SubSeq(stack, 1, m)
<1>1. /\ UNCHANGED <<env, hidden, envFound, present, interrupted>>
      /\ TypeOK /\ Frames /\ FilesInv /\ Leaving /\ (~interrupted => EnvInv)
      /\ stack # <<>> /\ Top.phase = "back" /\ raising' = (raising /\ n > 1)
  BY DEF Exit, In, others, foundVars, Core, BlockInv
<1>2. /\ stack \in Seq(Frame) /\ n \in Nat /\ n >= 1 /\ DOMAIN stack = 1..n
      /\ m \in Nat /\ m < n /\ m + 1 = n
  BY <1>1 DEF TypeOK
<1>3. /\ Len(outer) = m /\ DOMAIN outer = 1..m /\ \A i \in 1..m : outer[i] = stack[i]
      /\ outer \in Seq(Frame)
  BY <1>2
<1>4. \A i \in 1..m : stack[i].phase = "body" /\ stack[i] \in Frame /\ stack[i].context \in Context
  <2>1. ASSUME NEW i \in 1..m PROVE i \in DOMAIN stack /\ i < Len(stack)
    BY <1>2
  <2>2. \A i \in DOMAIN stack : stack[i] \in Frame
    BY <1>2
  <2> HIDE DEF m
  <2> QED
    BY <1>1, <2>1, <2>2 DEF Frames, Frame
<1> DEFINE g == [outer[m] EXCEPT !.phase = "reset", !.at = 1]
<1>5. \/ stack' = outer /\ ~(raising /\ m >= 1)
      \/ raising /\ m >= 1 /\ stack' = [outer EXCEPT ![m] = g]
  <2>1. CASE raising /\ outer # <<>>
    <3>1. stack' = [outer EXCEPT ![Len(outer)].phase = "reset", ![Len(outer)].at = 1]
      BY <2>1 DEF Exit
    <3>2. Len(outer) = m /\ m >= 1 /\ m \in DOMAIN outer
      BY <1>2, <1>3, <2>1
    <3> QED
      BY <1>3, <2>1, <3>1, <3>2
  <2>2. CASE ~(raising /\ outer # <<>>)
    <3>1. m >= 1 => outer # <<>>
      <4>1. Len(outer) = m
        BY <1>3
      <4> HIDE DEF outer, m
      <4> QED
        BY <4>1
    <3> QED
      BY <2>2, <3>1 DEF Exit
  <2> QED
    BY <2>1, <2>2
<1>6. m >= 1 => /\ g.phase = "reset" /\ g.at = 1 /\ g.context = stack[m].context
                /\ g.moved = stack[m].moved /\ g.old = stack[m].old /\ g \in Frame
  <2>1. m >= 1 => outer[m] \in Frame /\ outer[m] = stack[m]
    BY <1>2, <1>3
  <2> HIDE DEF outer
  <2> QED
    BY <2>1 DEF Frame, Phase
<1> HIDE DEF g, outer, m
<1>7. /\ Len(stack') = m /\ DOMAIN stack' = 1..m
      /\ \A i \in 1..m : stack'[i] = stack[i] \/ (i = m /\ stack'[i] = g)
      /\ raising /\ m >= 1 => stack'[m] = g
  BY <1>2, <1>3, <1>5
<1>8. ASSUME NEW i \in 1..m
      PROVE  /\ stack'[i].context = stack[i].context /\ stack'[i].moved = stack[i].moved
             /\ stack'[i].old = stack[i].old /\ stack'[i].phase \in {"body", "reset"}
             /\ stack'[i].phase = "reset" => stack'[i].at = 1
  BY <1>2, <1>4, <1>6, <1>7
<1>9. ASSUME NEW i \in 1..m, NEW v
      PROVE  /\ Holds(stack'[i], v) <=> Holds(stack[i], v)
             /\ Holds(stack[i], v) <=> Speaks(stack[i], v)
  <2>1. \A k \in DOMAIN stack[i].context.items : k >= 1
    BY <1>4, ContextAssumption
  <2> QED
    BY <1>4, <1>8, <2>1 DEF Holds, Speaks
<1>10. FilesInv'
  <2>1. \A i \in 1..m : i \in 1..n
    BY <1>2
  <2>2. ASSUME NEW i \in 1..m PROVE Away(stack'[i], present' \ hidden')
    BY <1>1, <1>2, <1>4, <1>8, <2>1 DEF FilesInv, Away, Passed
  <2>3. ASSUME NEW i \in 1..m, NEW j \in 1..m, i < j, NEW p \in Path, Took(stack'[j], p)
        PROVE  \A k \in DOMAIN stack'[i].context.files : stack'[i].context.files[k] # p
    <3>1. Took(stack[j], p)
      BY <1>8, <2>3 DEF Took
    <3> QED
      BY <1>1, <1>2, <1>8, <2>1, <2>3, <3>1 DEF FilesInv
  <2> QED
    BY <1>7, <2>2, <2>3 DEF FilesInv
<1>11. stack' # <<>> => m >= 1 /\ m \in 1..m /\ Top' = stack'[m]
  BY <1>2, <1>7 DEF Top
<1>12. Leaving'
  <2> SUFFICES ASSUME interrupted', stack' # <<>> PROVE raising' /\ Top'.phase \in {"reset", "back"}
    BY DEF Leaving
  <2>1. raising /\ m >= 1
    BY <1>1, <1>11 DEF Leaving
  <2>2. n > 1 /\ stack'[m] = g /\ g.phase = "reset"
    BY <1>2, <1>6, <1>7, <2>1
  <2>3. raising'
    BY <1>1, <2>1, <2>2
  <2> QED
    BY <1>11, <2>2, <2>3
<1>13. ASSUME EnvInv PROVE EnvInv'
  <2>1. ASSUME NEW l \in 0..m, NEW v, NEW x
        PROVE  Right(stack, envFound, l, v, x) <=> Right(stack', envFound', l, v, x)
    <3>1. \A i \in 1..l : i \in 1..m
      BY <1>2
    <3>2. \A i \in 1..l : /\ Speaks(stack'[i], v) <=> Speaks(stack[i], v)
                          /\ Wants(stack'[i], v, x) <=> Wants(stack[i], v, x)
      <4> SUFFICES ASSUME NEW i \in 1..l PROVE stack'[i].context = stack[i].context
        BY DEF Speaks, Wants
      <4> QED
        BY <1>8, <3>1
    <3>3. \A i \in 1..l : \A j \in (i + 1)..l : j \in 1..l
      OBVIOUS
    <3>4. envFound' = envFound
      BY <1>1
    <3> QED
      BY <3>2, <3>3, <3>4 DEF Right
  <2>2. ASSUME NEW i \in 1..m, NEW v \in Var, Holds(stack'[i], v)
        PROVE  Right(stack', envFound', i - 1, v, stack'[i].old[v])
    <3>1. i \in 1..n /\ i - 1 \in 0..m /\ Holds(stack[i], v)
      BY <1>2, <1>9, <2>2
    <3>2. Right(stack, envFound, i - 1, v, stack[i].old[v])
      BY <1>2, <1>13, <3>1 DEF EnvInv
    <3> QED
      BY <1>8, <2>1, <3>1, <3>2
  <2>3. ASSUME NEW v \in Var PROVE Right(stack, envFound, m, v, env[v])
    <3>1. ~Holds(Top, v)
      <4>1. Top.at > Len(Files) /\ Top.phase = "back"
        BY <1>1 DEF Exit
      <4> QED
        BY <4>1 DEF Holds
    <3> QED
      BY <1>1, <1>13, <3>1 DEF EnvInv, m, n
  <2>4. stack' = <<>> => env' = envFound'
    <3> SUFFICES ASSUME stack' = <<>> PROVE env = envFound
      BY <1>1
    <3>1. m = 0
      BY <1>2, <1>7
    <3>2. \A v \in Var : env[v] = envFound[v]
      BY <2>3, <3>1 DEF Right
    <3> QED
      BY <1>1, <3>2 DEF TypeOK
  <2>5. ASSUME stack' # <<>>, NEW v \in Var
        PROVE  /\ Holds(Top', v) => Wants(Top', v, env'[v])
               /\ ~Holds(Top', v) => Right(stack', envFound', m - 1, v, env'[v])
    <3>1. m \in 1..m /\ Top' = stack'[m] /\ m - 1 \in 0..m
      BY <1>2, <1>11, <2>5
    <3>2. Holds(Top', v) <=> Speaks(stack[m], v)
      BY <1>9, <3>1
    <3>3. Right(stack, envFound, m, v, env[v])
      BY <2>3
    <3>4. CASE Speaks(stack[m], v)
      <4>1. PICK i \in 1..m : /\ Wants(stack[i], v, env[v])
                                /\ \A j \in (i + 1)..m : ~Speaks(stack[j], v)
        BY <3>1, <3>3, <3>4 DEF Right
      <4>2. i = m
        BY <1>2, <3>1, <3>4, <4>1
      <4> QED
        BY <1>1, <1>8, <3>1, <3>2, <3>4, <4>1, <4>2 DEF Wants
    <3>5. CASE ~Speaks(stack[m], v)
      <4>1. Right(stack, envFound, m - 1, v, env[v])
        <5>1. CASE env[v] = envFound[v] /\ \A i \in 1..m : ~Speaks(stack[i], v)
          BY <1>2, <5>1 DEF Right
        <5>2. CASE \E i \in 1..m : /\ Wants(stack[i], v, env[v])
                                   /\ \A j \in (i + 1)..m : ~Speaks(stack[j], v)
          <6>1. PICK i \in 1..m : /\ Wants(stack[i], v, env[v])
                                  /\ \A j \in (i + 1)..m : ~Speaks(stack[j], v)
            BY <5>2
          <6>2. i # m
            BY <3>5, <6>1 DEF Wants, Speaks
          <6>3. i \in 1..(m - 1) /\ \A j \in (i + 1)..(m - 1) : j \in (i + 1)..m
            BY <1>2, <6>2
          <6> QED
            BY <6>1, <6>3 DEF Right
        <5> QED
          BY <3>3, <5>1, <5>2 DEF Right
      <4> QED
        BY <1>1, <2>1, <3>1, <3>2, <3>5, <4>1
    <3> QED
      BY <3>4, <3>5
  <2> QED
    BY <1>7, <2>2, <2>4, <2>5 DEF EnvInv
<1> QED
  BY <1>1, <1>10, <1>12, <1>13 DEF BlockInv

LEMMA InterruptBlock == ASSUME Core, BlockInv, Interrupt PROVE BlockInv'
<1>1. /\ UNCHANGED <<env, hidden, envFound, present>> /\ interrupted'
      /\ TypeOK /\ Frames /\ FilesInv /\ raising' = (stack # <<>>)
  BY DEF Interrupt, foundVars, Core, BlockInv
<1>2. CASE stack = <<>>
  <2>1. UNCHANGED stack
    BY <1>2 DEF Interrupt, In
  <2> QED
    BY <1>1, <1>2, <2>1 DEF BlockInv, FilesInv, Leaving
<1>3. CASE stack # <<>>
  <2>1. ASSUME NEW f \in Frame, Put(f), f.context = Top.context, f.moved = Top.moved,
               f.phase = "back" \/ (f.phase = "reset" /\ Top.phase = "body")
        PROVE  BlockInv'
    <3>1. Away(f, present' \ hidden')
      BY <1>1, <1>3, <2>1, BlockTop DEF Away, Passed
    <3>2. \A p \in Path : Took(f, p) => Took(Top, p)
      BY <2>1 DEF Took
    <3>3. FilesInv'
      BY <1>1, <1>3, <2>1, <3>1, <3>2, FilesStep
    <3>4. Top' = f
      BY <1>1, <1>3, <2>1, PutFacts DEF TypeOK, Put, Top
    <3> QED
      BY <1>1, <1>3, <2>1, <3>3, <3>4 DEF BlockInv, Leaving
  <2>2. CASE In("body")
    <3>1. Goto("reset") /\ Top.phase = "body"
      BY <1>3, <2>2 DEF Interrupt, In
    <3> QED
      BY <1>1, <1>3, <2>1, <3>1, GotoTop DEF Phase
  <2>3. CASE In("back")
    <3> DEFINE f == [Top EXCEPT !.at = Len(Files) + 1]
    <3>1. Put(f) /\ Top.phase = "back" /\ Top \in Frame /\ Len(Files) + 1 \in Nat
      BY <1>3, <2>3, BlockTop DEF Interrupt, In
    <3>2. f \in Frame /\ f.context = Top.context /\ f.moved = Top.moved /\ f.phase = "back"
      BY <3>1 DEF Frame
    <3> QED
      BY <2>1, <3>1, <3>2
  <2>4. CASE ~In("body") /\ ~In("back")
    <3>1. Goto("back")
      BY <1>3, <2>4 DEF Interrupt
    <3> QED
      BY <1>1, <1>3, <2>1, <3>1, GotoTop DEF Phase
  <2> QED
    BY <2>2, <2>3, <2>4
<1> QED
  BY <1>2, <1>3

LEMMA NextBlock == ASSUME IInv, BlockInv, [Next]_vars PROVE BlockInv'
<1>1. Core
  BY DEF IInv, Core
<1>2. CASE UNCHANGED <<contextVars, interrupted, foundVars>>
  BY <1>2 DEF contextVars, foundVars, BlockInv, FilesInv, EnvInv, Leaving, Top
<1>3. CASE \/ TokenExists \/ Download \/ WriteToken \/ FlagToken \/ ParseToken \/ RemoveTokens
           \/ StageEnds \/ UNCHANGED vars
  BY <1>2, <1>3 DEF TokenExists, Download, WriteToken, FlagToken, ParseToken, RemoveTokens,
                    StageEnds, vars, elsewhere
<1> QED
  BY <1>1, <1>3, EnterBlock, MoveAsideBlock, NoteMovedBlock, MoveFailsBlock, SetVarBlock,
     BodyEndsBlock, ResetVarBlock, MoveBackBlock, ExitBlock, InterruptBlock DEF Next, Done

LEMMA BlockInvariance == Spec => [](IInv /\ BlockInv)
<1>1. Init => IInv /\ BlockInv
  BY InitInv, InitBlock
<1>2. IInv /\ BlockInv /\ [Next]_vars => (IInv /\ BlockInv)'
  BY NextInv, NextBlock
<1> QED
  BY <1>1, <1>2, PTL DEF Spec

(* What is right for all of the frames is what Asked allows. *)
LEMMA RightIsAsked ==
  ASSUME TypeOK, NEW v, NEW x, Right(stack, envFound, Len(stack), v, x)
  PROVE  x \in Asked(v)
<1> DEFINE n == Len(stack)
           Asking == {i \in DOMAIN stack : \E k \in DOMAIN stack[i].context.items :
                                             stack[i].context.items[k][1] = v}
           inner == CHOOSE i \in Asking : \A j \in Asking : j <= i
           settings == {stack[inner].context.items[k] : k \in DOMAIN stack[inner].context.items}
<1>1. n \in Nat /\ DOMAIN stack = 1..n /\ Asking = {i \in 1..n : Speaks(stack[i], v)}
  BY DEF TypeOK, Speaks
<1>2. CASE x = envFound[v] /\ \A i \in 1..n : ~Speaks(stack[i], v)
  BY <1>1, <1>2 DEF Asked
<1>3. CASE \E i \in 1..n : Wants(stack[i], v, x) /\ \A j \in (i + 1)..n : ~Speaks(stack[j], v)
  <2>1. PICK i \in 1..n : Wants(stack[i], v, x) /\ \A j \in (i + 1)..n : ~Speaks(stack[j], v)
    BY <1>3
  <2>2. i \in Asking /\ \A j \in Asking : j <= i
    BY <1>1, <2>1 DEF Wants, Speaks
  <2>3. Asking \subseteq 1..n
    BY <1>1
  <2> HIDE DEF Asking
  <2>4. inner \in Asking /\ \A j \in Asking : j <= inner
    BY <2>2
  <2>5. inner = i
    BY <1>1, <2>2, <2>3, <2>4
  <2>6. \E item \in settings : item[1] = v /\ item[2] = x
    BY <2>1, <2>5 DEF Wants
  <2>7. Asking # {}
    BY <2>2
  <2> USE DEF Asking
  <2>8. Asked(v) = {item[2] : item \in {it \in settings : it[1] = v}}
    BY <2>7 DEF Asked
  <2> HIDE DEF settings
  <2> QED
    BY <2>6, <2>8
<1> QED
  BY <1>2, <1>3 DEF Right

(* While a block runs, no file that one of the contexts around it hides    *)
(* can be found, and every variable is as the innermost context that       *)
(* speaks of it wants it (no_x509, no_bearer_token and environ_context of  *)
(* core.py): for any contexts and any depth, after inner contexts were     *)
(* left by the end of their block or by an exception.                      *)
THEOREM BlocksHide == Spec => []HiddenInBody
<1>1. ASSUME IInv, BlockInv, In("body") PROVE HiddenInBody
  <2>1. TypeOK /\ Frames /\ stack # <<>> /\ Top.phase = "body" /\ FilesInv /\ ~interrupted /\ EnvInv
    BY <1>1 DEF In, IInv, BlockInv, Leaving
  <2>2. \A i \in DOMAIN stack : stack[i].phase = "body"
    BY <2>1 DEF Frames, TypeOK, Top
  <2>3. \A i \in DOMAIN stack : \A k \in DOMAIN stack[i].context.files :
          stack[i].context.files[k] \notin present \ hidden
    BY <2>1, <2>2 DEF FilesInv, Away, Passed
  <2>4. \A v \in Var : env[v] \in Asked(v)
    BY <2>1, RightInBody, RightIsAsked
  <2> QED
    BY <2>3, <2>4 DEF HiddenInBody
<1>2. IInv /\ BlockInv => HiddenInBody
  BY <1>1 DEF HiddenInBody
<1> QED
  BY <1>2, BlockInvariance, PTL

================================================================================
