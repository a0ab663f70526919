----------------------------- MODULE MCAuthFile -----------------------------
(* The credential file on a small instance.                                 *)
EXTENDS AuthFile

CONSTANTS r1, r2

(* The CLI in the container; a program of another user, careful or not.     *)
SomeCreations ==
    {<<"root:root", "0600">>, <<"other", "0600">>, <<"other", "0644">>}

(* No definition tells one request from the other, so of their mixed kinds  *)
(* one is enough.  (A SYMMETRY set would be unsound for AccessRestored.)    *)
MCInit == Init /\ kind # [[r \in Requests |-> "image"] EXCEPT ![r1] = "cli"]

MCSpec == MCInit /\ [][Next]_vars /\ Fairness
=============================================================================
