----------------------------- MODULE MCCredentials -----------------------------
(* The three context managers as the tests use them, with two of the three *)
(* variables of no_x509 and of no_bearer_token.                            *)
EXTENDS Credentials

no_x509 ==
  [files |-> <<"globus", "proxy">>,
   items |-> << <<"X509_USER_PROXY", Unset>>, <<"X509_USER_CERT", Unset>> >>]
no_bearer_token ==
  [files |-> <<"bearer">>,
   items |-> << <<"BEARER_TOKEN", Unset>>, <<"BEARER_TOKEN_FILE", Unset>> >>]
with_token == [files |-> <<>>, items |-> << <<"BEARER_TOKEN", "token">>,
                                            <<"BEARER_TOKEN_FILE", Unset>> >>]
with_token_file == [files |-> <<>>, items |-> << <<"BEARER_TOKEN_FILE", "token">> >>]

MCContext == {no_x509, no_bearer_token, with_token, with_token_file}
MCPath == {"globus", "proxy", "bearer"}
MCVar == {"X509_USER_PROXY", "X509_USER_CERT", "BEARER_TOKEN", "BEARER_TOKEN_FILE"}
MCToken == <<"xrootd", "xrootd_tpc_1">>
================================================================================
