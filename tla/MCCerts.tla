-------------------------------- MODULE MCCerts --------------------------------
(* A small instance of Certs: one certificate and its key.                 *)
EXTENDS Certs

CONSTANTS cert, key

CertThenKey == <<cert, key>>

================================================================================
