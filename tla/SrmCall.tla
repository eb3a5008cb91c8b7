------------------------------- MODULE SrmCall -------------------------------
(***************************************************************************)
(* What the library promises the application about ls, prepare-to-put,     *)
(* prepare-to-get and bring-online, without polling, clock or server: a    *)
(* call that was started comes back; a synchronous one with file statuses  *)
(* or with an error, never with the request still in the queue; an         *)
(* asynchronous one may come back queued, and then with the token to ask   *)
(* again; an error brings no file statuses.                                *)
(***************************************************************************)
CONSTANTS Tokens, NoToken

VARIABLES
  phase,    \* "idle", "running", "done", "queued", "error"
  mode,     \* "sync" or "async"
  token,    \* output->token
  files     \* output->filestatuses (or statuses) handed over

vars == << phase, mode, token, files >>

Init == phase = "idle" /\ mode = "sync" /\ token = NoToken /\ files = FALSE

\* A new request: the token of the last one is forgotten.
Start ==
  /\ phase # "running"
  /\ phase' = "running"
  /\ mode' \in { "sync", "async" }
  /\ token' = NoToken
  /\ files' = FALSE

\* The application asks about its asynchronous request by its token.
Resume ==
  /\ phase # "running"
  /\ mode = "async"
  /\ token # NoToken
  /\ phase' = "running"
  /\ files' = FALSE
  /\ UNCHANGED << mode, token >>

\* While a call runs it may learn the token of its request, once.
Learn ==
  /\ phase = "running"
  /\ token = NoToken
  /\ token' \in Tokens
  /\ UNCHANGED << phase, mode, files >>

Return ==
  /\ phase = "running"
  /\ \/ phase' = "done" /\ files' = TRUE
     \/ phase' = "error" /\ files' = FALSE
     \/ /\ phase' = "queued"
        /\ mode = "async"
        /\ token # NoToken
        /\ files' \in BOOLEAN
  /\ UNCHANGED << mode, token >>

Next == Start \/ Resume \/ Learn \/ Return

Spec == Init /\ [][Next]_vars /\ WF_vars(Return)
=============================================================================
