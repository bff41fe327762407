------------------------------- MODULE Credentials -----------------------------
(***************************************************************************)
(* The credentials that the tests get and hide. request_scitoken of        *)
(* osgtest/library/credentials.py writes token files, which special_cleanup*)
(* test_08 removes. environ_context, no_x509 and no_bearer_token of core   *)
(* set environment variables and move files of the user aside while a      *)
(* block runs; blocks nest, and end by an exception as well. Ctrl-C may    *)
(* come between any two statements, once: a second one ends osg-test.      *)
(***************************************************************************)

EXTENDS Naturals, Sequences, FiniteSets

CONSTANTS
  Path,     \* ~/.globus, /tmp/x509up_u<uid>, /tmp/bt_u<uid>
  Var,      \* environment variables
  Value,    \* values that a context gives them
  Unset,    \* Python's None
  Context,  \* [files: paths to hide, items: pairs of a variable and its value]
  Token,    \* the names of the tokens, in the order of the requests
  MaxDepth  \* contexts within one another

Found == "found"  \* what a variable or a token file holds before the run
Setting == Value \cup {Unset, Found}
TokenFile == {"none", Found, "made"}

ASSUME ContextAssumption ==
  /\ Context \subseteq [files : Seq(Path), items : Seq(Var \X (Value \cup {Unset}))]
  /\ \A c \in Context : \A i, j \in DOMAIN c.files : c.files[i] = c.files[j] => i = j
  /\ \A c \in Context : \A i, j \in DOMAIN c.items : c.items[i][1] = c.items[j][1] => i = j
ASSUME TokenAssumption == Token \in Seq(STRING) /\ MaxDepth \in Nat

Phase == {"move", "flag", "set", "body", "reset", "back"}
Names == {Token[i] : i \in DOMAIN Token}

VARIABLES
  env,        \* [Var -> Setting]: os.environ
  hidden,     \* the paths that stand under their backup name
  stack,      \* the contexts entered, the innermost last
  raising,    \* BOOLEAN: an exception is on its way up the stack
  stage,      \* "request", "tests", "clean", "done"
  tokenfile,  \* [Names -> TokenFile]
  created,    \* core.state[token.<name>_created]: the names for which it is set
  request,    \* [token |-> which, step |-> where in request_scitoken]
  interrupted,
  envFound, present,  \* history: the environment and the paths before the run
  stuck,      \* history: paths that could not be moved back, which is logged
  torn,       \* history: what Ctrl-C cut short: entering or leaving a "context", or
              \* the write of a "token" and its note
  overwritten \* history: the token files that a request replaced

contextVars == <<env, hidden, stack, raising, stuck>>
tokenVars == <<tokenfile, created, request, overwritten>>
foundVars == <<envFound, present>>
vars == <<contextVars, tokenVars, stage, interrupted, torn, foundVars>>

Frame == [context : Context, phase : Phase, at : Nat, moved : SUBSET Path,
          old : UNION {[V -> Setting] : V \in SUBSET Var}]

TypeOK ==
  /\ env \in [Var -> Setting] /\ envFound \in [Var -> {Unset, Found}]
  /\ present \subseteq Path /\ hidden \subseteq present /\ stuck \subseteq hidden
  /\ stack \in Seq(Frame) /\ Len(stack) <= MaxDepth
  /\ raising \in BOOLEAN /\ interrupted \in BOOLEAN /\ torn \subseteq {"context", "token"}
  /\ stage \in {"request", "tests", "clean", "done"}
  /\ tokenfile \in [Names -> TokenFile] /\ created \subseteq Names
  /\ overwritten \subseteq Names
  /\ request \in [token : 1..Len(Token) + 1,
                  step : {"exists", "download", "write", "flag", "parse"}]

--------------------------------------------------------------------------------
(* Contexts.                                                               *)

Top == stack[Len(stack)]
In(phase) == stack # <<>> /\ Top.phase = phase
Files == Top.context.files
Items == Top.context.items
Put(frame) == stack' = [stack EXCEPT ![Len(stack)] = frame]
Goto(phase) == Put([Top EXCEPT !.phase = phase, !.at = 1])
Step == Put([Top EXCEPT !.at = @ + 1])
others == <<tokenVars, stage, interrupted, torn, foundVars>>

Enter ==
  /\ stage = "tests" /\ ~raising /\ ~interrupted
  /\ stack = <<>> \/ In("body")
  /\ Len(stack) < MaxDepth
  /\ \E c \in Context :
       stack' = Append(stack, [context |-> c, phase |-> "move", at |-> 1,
                               moved |-> {}, old |-> [v \in {} |-> Unset]])
  /\ UNCHANGED <<env, hidden, raising, stuck, others>>

(* Mutant: os.path.exists is not asked. *)
MoveAsideUnchecked ==
  /\ In("move")
  /\ \/ /\ Top.at > Len(Files)
        /\ Goto("set") /\ UNCHANGED hidden
     \/ /\ Top.at <= Len(Files)
        /\ hidden' = hidden \cup {Files[Top.at]}
        /\ Put([Top EXCEPT !.phase = "flag"])
  /\ UNCHANGED <<env, raising, stuck, others>>

(* The path is moved first, then it is noted that it was. *)
MoveAside ==
  /\ In("move")
  /\ \/ /\ Top.at > Len(Files)
        /\ Goto("set") /\ UNCHANGED hidden
     \/ /\ Top.at <= Len(Files) /\ Files[Top.at] \notin present \ hidden
        /\ Step /\ UNCHANGED hidden
     \/ /\ Top.at <= Len(Files) /\ Files[Top.at] \in present \ hidden
        /\ hidden' = hidden \cup {Files[Top.at]}
        /\ Put([Top EXCEPT !.phase = "flag"])
  /\ UNCHANGED <<env, raising, stuck, others>>

NoteMoved ==
  /\ In("flag")
  /\ Put([Top EXCEPT !.moved = @ \cup {Files[Top.at]}, !.phase = "move", !.at = @ + 1])
  /\ UNCHANGED <<env, hidden, raising, stuck, others>>

(* shutil.move raises; the finally clause puts back what was moved. *)
MoveFails ==
  /\ In("move") /\ Top.at <= Len(Files) /\ Files[Top.at] \in present \ hidden
  /\ raising' = TRUE /\ Goto("back")
  /\ UNCHANGED <<env, hidden, stuck, others>>

(* Mutant: a variable whose new value is None is left as it is. *)
SetVarIfGiven ==
  /\ In("set")
  /\ \/ Top.at > Len(Items) /\ Goto("body") /\ UNCHANGED env
     \/ /\ Top.at <= Len(Items)
        /\ LET key == Items[Top.at][1]
           IN /\ env' = [env EXCEPT ![key] = IF Items[Top.at][2] = Unset THEN @
                                             ELSE Items[Top.at][2]]
              /\ Put([Top EXCEPT !.at = @ + 1,
                        !.old = [v \in DOMAIN @ \cup {key} |->
                                   IF v = key THEN env[key] ELSE @[v]]])
  /\ UNCHANGED <<hidden, raising, stuck, others>>

(* The loop of environ_context, outside of its try. *)
SetVar ==
  /\ In("set")
  /\ \/ Top.at > Len(Items) /\ Goto("body") /\ UNCHANGED env
     \/ /\ Top.at <= Len(Items)
        /\ LET key == Items[Top.at][1]
           IN /\ env' = [env EXCEPT ![key] = Items[Top.at][2]]
              /\ Put([Top EXCEPT !.at = @ + 1,
                        !.old = [v \in DOMAIN @ \cup {key} |->
                                   IF v = key THEN env[key] ELSE @[v]]])
  /\ UNCHANGED <<hidden, raising, stuck, others>>

(* The block ends, or raises. *)
BodyEnds ==
  /\ In("body")
  /\ raising' \in BOOLEAN
  /\ Goto("reset")
  /\ UNCHANGED <<env, hidden, stuck, others>>

(* Mutant: a variable that was not set before is left alone. *)
ResetVarIfSet ==
  /\ In("reset")
  /\ \/ Top.at > Len(Items) /\ Goto("back") /\ UNCHANGED env
     \/ /\ Top.at <= Len(Items) /\ Step
        /\ LET key == Items[Top.at][1]
           IN env' = [env EXCEPT ![key] = IF Top.old[key] = Unset THEN @ ELSE Top.old[key]]
  /\ UNCHANGED <<hidden, raising, stuck, others>>

ResetVar ==
  /\ In("reset")
  /\ \/ Top.at > Len(Items) /\ Goto("back") /\ UNCHANGED env
     \/ /\ Top.at <= Len(Items) /\ Step
        /\ env' = [env EXCEPT ![Items[Top.at][1]] = Top.old[Items[Top.at][1]]]
  /\ UNCHANGED <<hidden, raising, stuck, others>>

(* Each path in a try of its own; a failure is logged only. *)
MoveBack ==
  /\ In("back") /\ Top.at <= Len(Files) /\ Step
  /\ IF Files[Top.at] \notin Top.moved THEN UNCHANGED <<hidden, stuck>>
     ELSE \/ hidden' = hidden \ {Files[Top.at]} /\ UNCHANGED stuck
          \/ stuck' = stuck \cup {Files[Top.at]} /\ UNCHANGED hidden
  /\ UNCHANGED <<env, raising, others>>

(* An exception goes on to the context around this one, or fails the test. *)
Exit ==
  /\ In("back") /\ Top.at > Len(Files)
  /\ LET outer == SubSeq(stack, 1, Len(stack) - 1)
     IN IF raising /\ outer # <<>>
        THEN stack' = [outer EXCEPT ![Len(outer)].phase = "reset", ![Len(outer)].at = 1]
        ELSE stack' = outer
  /\ raising' = (raising /\ Len(stack) > 1)
  /\ UNCHANGED <<env, hidden, stuck, others>>

--------------------------------------------------------------------------------
(* Tokens.                                                                 *)

Requesting(step) == stage = "request" /\ request.token <= Len(Token) /\ request.step = step
name == Token[request.token]
elsewhere == <<contextVars, interrupted, torn, foundVars>>

NextToken == request' = [token |-> request.token + 1, step |-> "exists"]

(* A request that raises ends the test: no more of its tokens are asked for.*)
Raises == request' = [token |-> Len(Token) + 1, step |-> "exists"]

(* Mutant: a token that was loaded from its file counts as created. *)
TokenExistsCreated ==
  /\ Requesting("exists")
  /\ IF tokenfile[name] = "none"
     THEN request' = [request EXCEPT !.step = "download"] /\ UNCHANGED created
     ELSE NextToken /\ created' = created \cup {name}
  /\ UNCHANGED <<tokenfile, overwritten, stage, elsewhere>>

(* overwrite is the caller's. *)
TokenExists ==
  /\ Requesting("exists")
  /\ \/ /\ tokenfile[name] = "none"
        /\ request' = [request EXCEPT !.step = "download"] /\ UNCHANGED <<tokenfile, overwritten>>
     \/ /\ tokenfile[name] # "none"
        /\ tokenfile' = [tokenfile EXCEPT ![name] = "none"]
        /\ overwritten' = overwritten \cup {name}
        /\ request' = [request EXCEPT !.step = "download"]
     \/ /\ tokenfile[name] # "none"
        /\ NextToken /\ UNCHANGED <<tokenfile, overwritten>>
  /\ UNCHANGED <<created, stage, elsewhere>>

Download ==
  /\ Requesting("download")
  /\ request' = [request EXCEPT !.step = "write"] \/ Raises
  /\ UNCHANGED <<tokenfile, created, overwritten, stage, elsewhere>>

(* files.write without a backup puts the file in place by one rename. *)
WriteToken ==
  /\ Requesting("write")
  /\ \/ tokenfile' = [tokenfile EXCEPT ![name] = "made"]
        /\ request' = [request EXCEPT !.step = "flag"]
     \/ Raises /\ UNCHANGED tokenfile
  /\ UNCHANGED <<created, overwritten, stage, elsewhere>>

(* Mutant: the token is parsed before the file is noted. *)
FlagAfterParse ==
  /\ Requesting("flag")
  /\ \/ created' = created \cup {name} /\ request' = [request EXCEPT !.step = "parse"]
     \/ Raises /\ UNCHANGED created
  /\ UNCHANGED <<tokenfile, overwritten, stage, elsewhere>>

FlagToken ==
  /\ Requesting("flag")
  /\ created' = created \cup {name} /\ request' = [request EXCEPT !.step = "parse"]
  /\ UNCHANGED <<tokenfile, overwritten, stage, elsewhere>>

ParseToken ==
  /\ Requesting("parse")
  /\ NextToken \/ Raises
  /\ UNCHANGED <<tokenfile, created, overwritten, stage, elsewhere>>

(* special_cleanup test_08, over the names that were reserved. *)
RemoveTokens ==
  /\ stage = "clean" /\ stage' = "done"
  /\ tokenfile' = [t \in Names |-> IF t \in created THEN "none" ELSE tokenfile[t]]
  /\ UNCHANGED <<created, request, overwritten, elsewhere>>

--------------------------------------------------------------------------------
(* The run.                                                                *)

StageEnds ==
  /\ stack = <<>>
  /\ \/ stage = "request" /\ request.token > Len(Token) /\ stage' = "tests"
     \/ stage = "tests" /\ stage' = "clean"
  /\ UNCHANGED <<contextVars, tokenVars, interrupted, torn, foundVars>>

(* Ctrl-C in a test: the contexts are left, then the clean-up runs. What a *)
(* finally clause had still to do is not done.                             *)
Interrupt ==
  /\ ~interrupted /\ interrupted' = TRUE /\ stage \in {"request", "tests"}
  /\ stage' = IF stack = <<>> THEN "clean" ELSE stage
  /\ raising' = (stack # <<>>)
  /\ torn' = {x \in {"context", "token"} :
                IF x = "token" THEN Requesting("flag") ELSE stack # <<>> /\ ~In("body")}
  /\ CASE stack = <<>>                      -> UNCHANGED stack
       [] In("body")                        -> Goto("reset")
       [] In("back")                        -> Put([Top EXCEPT !.at = Len(Files) + 1])
       [] OTHER                             -> Goto("back")
  /\ UNCHANGED <<env, hidden, stuck, tokenVars, foundVars>>

Done == stage = "done" /\ UNCHANGED vars

Init ==
  /\ envFound \in [Var -> {Unset, Found}] /\ env = envFound
  /\ present \in SUBSET Path /\ hidden = {} /\ stuck = {}
  /\ stack = <<>> /\ raising = FALSE /\ stage = "request"
  /\ tokenfile \in [Names -> {"none", Found}] /\ created = {} /\ overwritten = {}
  /\ request = [token |-> 1, step |-> "exists"]
  /\ interrupted = FALSE /\ torn = {}

Next ==
  \/ Enter \/ MoveAside \/ NoteMoved \/ MoveFails \/ SetVar \/ BodyEnds
  \/ ResetVar \/ MoveBack \/ Exit
  \/ TokenExists \/ Download \/ WriteToken \/ FlagToken \/ ParseToken
  \/ RemoveTokens \/ StageEnds \/ Interrupt \/ Done

Spec == Init /\ [][Next]_vars

--------------------------------------------------------------------------------
(* The setting that the innermost of the contexts asks for. *)
Asked(v) ==
  LET Asking == {i \in DOMAIN stack : \E k \in DOMAIN stack[i].context.items :
                                        stack[i].context.items[k][1] = v}
      inner == CHOOSE i \in Asking : \A j \in Asking : j <= i
  IN IF Asking = {} THEN {envFound[v]}
     ELSE {item[2] : item \in {it \in {stack[inner].context.items[k] :
                                         k \in DOMAIN stack[inner].context.items} : it[1] = v}}

(* While a block runs, no file that one of the contexts around it hides    *)
(* can be found, and each variable is as the innermost context that speaks *)
(* of it wants it: also after an inner context was left again, by whatever *)
(* way.                                                                    *)
HiddenInBody ==
  In("body") =>
    /\ \A i \in DOMAIN stack : \A k \in DOMAIN stack[i].context.files :
         stack[i].context.files[k] \notin present \ hidden
    /\ \A v \in Var : env[v] \in Asked(v)

(* When all contexts are left, the environment is what it was and every    *)
(* path is back in place but those whose move back was logged as failed;   *)
(* whatever failed on the way in, whatever the blocks raised, with one     *)
(* exception: Ctrl-C while a context was entered or left.                  *)
CredentialsAsFound ==
  stack = <<>> /\ "context" \notin torn => env = envFound /\ hidden = stuck

(* A token file that the run wrote is gone in the end, unless Ctrl-C came  *)
(* between the write and the note of it.                                   *)
NoTokenLeft ==
  stage = "done" /\ "token" \notin torn => \A t \in Names : tokenfile[t] # "made"

(* A token that was there before the run disappears only because a request *)
(* was told to overwrite it; the clean-up never takes it.                  *)
FoundTokenKept ==
  [][\A t \in Names : tokenfile[t] = Found /\ tokenfile'[t] # Found
       => stage = "request" /\ t \in overwritten']_vars

================================================================================
