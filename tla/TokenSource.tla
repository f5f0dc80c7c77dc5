----------------------------- MODULE TokenSource -----------------------------
(***************************************************************************)
(* What TokenManager of src/rociadb_sdk/auth.py promises to those who ask  *)
(* it, whoever shares a fetch with whom: one token that is only replaced   *)
(* by newer ones; a request for a newer token comes back with one newer    *)
(* than the one that was there when it was made, or with an exception; and *)
(* a request for any token is answered at once when there is one.          *)
(***************************************************************************)
EXTENDS Naturals

CONSTANT Callers  \* who asks

VARIABLES
  token,    \* the cached token: 0 is none, a newer one is a larger one
  request   \* the last request of each caller

NoRequest == [st |-> "idle", floor |-> 0, header |-> 0]

Init ==
  /\ token = 0
  /\ request = [c \in Callers |-> NoRequest]

-----------------------------------------------------------------------------
Renew ==
  /\ token' \in Nat /\ token' > token
  /\ UNCHANGED request

(* refresh_now(), or get_authorization_header() while there is no token.   *)
Ask(c) ==
  /\ request[c].st # "asking"
  /\ request' = [request EXCEPT ![c] = [st |-> "asking", floor |-> token, header |-> 0]]
  /\ UNCHANGED token

(* get_authorization_header() with a token in the cache.                   *)
AnswerAtOnce(c) ==
  /\ request[c].st # "asking" /\ token # 0
  /\ request' = [request EXCEPT ![c] = [st |-> "answered", floor |-> 0, header |-> token]]
  /\ UNCHANGED token

(* A refresh that succeeded since the caller asked.                        *)
Answer(c) ==
  /\ request[c].st = "asking" /\ token > request[c].floor
  /\ request' = [request EXCEPT ![c] =
       [st |-> "answered", floor |-> request[c].floor, header |-> token]]
  /\ UNCHANGED token

(* The refresh failed, or somebody cancelled it or the caller.             *)
Refuse(c) ==
  /\ request[c].st = "asking"
  /\ request' = [request EXCEPT ![c] =
       [st |-> "refused", floor |-> request[c].floor, header |-> 0]]
  /\ UNCHANGED token

Next == Renew \/ \E c \in Callers : Ask(c) \/ AnswerAtOnce(c) \/ Answer(c) \/ Refuse(c)

Spec == Init /\ [][Next]_<<token, request>>
=============================================================================
