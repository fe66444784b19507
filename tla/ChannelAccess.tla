--------------------------- MODULE ChannelAccess ---------------------------
(***************************************************************************)
(* What the realtime server promises about channels (socket/README.md,      *)
(* "Modes" and "Authorization"), without events, kick-outs, awaits or       *)
(* connections: in enforce a socket gets a channel only on the strength of  *)
(* the credential it has at that moment, entering enforce takes every       *)
(* channel back, and a channel given to a principal the socket no longer is *)
(* does not stay.  SocketAuth implements this module.                       *)
(***************************************************************************)

CONSTANTS Sockets, Channels, Credentials, Anon, Who(_), Authorized,
          NotSubscribed, Unchecked

VARIABLES
  enforcing,  \* whether subscriptions are denied unless authorized
  cred,       \* cred[s]: the credential of socket s
  held        \* held[s][c]: the credential s was given c for, or Unchecked

vars == <<enforcing, cred, held>>

NoChannels == [c \in Channels |-> NotSubscribed]

Init ==
  /\ enforcing \in BOOLEAN
  /\ cred = [s \in Sockets |-> Anon]
  /\ held = [s \in Sockets |-> NoChannels]

ChangeCredential(s) ==
  /\ \E t \in Credentials : cred' = [cred EXCEPT ![s] = t]
  /\ UNCHANGED <<enforcing, held>>

Acquire(s, c) ==
  /\ \/ /\ <<cred[s], c>> \in Authorized
        /\ held' = [held EXCEPT ![s][c] = cred[s]]
     \/ /\ ~enforcing
        /\ held' = [held EXCEPT ![s][c] = Unchecked]
  /\ UNCHANGED <<enforcing, cred>>

Release(s) ==
  /\ \E list \in SUBSET Channels :
       held' = [held EXCEPT ![s] =
                  [c \in Channels |-> IF c \in list THEN NotSubscribed
                                                    ELSE held[s][c]]]
  /\ UNCHANGED <<enforcing, cred>>

Relax == enforcing /\ enforcing' = FALSE /\ UNCHANGED <<cred, held>>

Enforce ==
  /\ ~enforcing
  /\ enforcing' = TRUE
  /\ held' = [s \in Sockets |-> NoChannels]
  /\ UNCHANGED cred

Next ==
  \/ \E s \in Sockets : ChangeCredential(s) \/ Release(s)
  \/ \E s \in Sockets, c \in Channels : Acquire(s, c)
  \/ Relax
  \/ Enforce

Stale(s, c) ==
  /\ enforcing
  /\ held[s][c] \in Credentials \ {Anon}
  /\ Who(held[s][c]) # Who(cred[s])

Revoked == \A s \in Sockets, c \in Channels : Stale(s, c) ~> ~Stale(s, c)

Safety == Init /\ [][Next]_vars

Spec == Safety /\ Revoked
=============================================================================
