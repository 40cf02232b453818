---------------------------- MODULE IntentClient ----------------------------
(***************************************************************************)
(* The command-line intent client (guardmesh-guardian/axl-intent-client.js *)
(* with axl-recv-util.js and verdict-spool.js), as its script              *)
(* test-axl-integration.js uses it: one intent after the other, from the   *)
(* hub, beside the same guardian listeners.                                *)
(*                                                                         *)
(* It does what the Web server's bridge does with the hub's queue and the  *)
(* spool, and three things otherwise: it empties the spool before it       *)
(* sends, it waits for as many rows as there are guardians even when a     *)
(* send failed, and it reads the queue after every drain. So it is a       *)
(* second program for the variables of IntentMesh: a request is one intent *)
(* of the client, out[r] the rows pollVerdicts returns.                    *)
(***************************************************************************)
EXTENDS IntentMesh

ASSUME ClientAssumption == None \notin Req

VARIABLE
  wiped       \* history: what lay in the spool when each intent emptied it

clientVars == <<vars, wiped>>

ClientInit == Init /\ wiped = [r \in Req |-> {}]

Lines(file) == {file[k] : k \in DOMAIN file}

\* The script awaits one round before the next.
Between(r) ==
  /\ WebIsFree
  /\ phase[r] = "idle"
  /\ \A s \in Req : phase[s] \in {"idle", "decided", "failed"}

\* initialize: /topology does not answer, and the script ends.
ClientUnreachable(r) ==
  /\ Between(r)
  /\ phase' = [s \in Req |-> IF phase[s] = "idle" THEN "failed" ELSE phase[s]]
  /\ UNCHANGED <<threshold, next, okPeers, out, late, nodeVars, spool, drain, faults, wiped>>

\* Mutant: a round that starts on what the last one left.
Mut_KeepSpool(r) ==
  /\ spool' = spool
  /\ wiped' = [wiped EXCEPT ![r] = Lines(spool)]

\* clearVerdictSpool: whatever the file holds is of an intent before.
Emptied(r) ==
  /\ spool' = <<>>
  /\ wiped' = [wiped EXCEPT ![r] = Lines(spool)]

\* broadcastAndCollect, up to its first send.
ClientStart(r) ==
  /\ Between(r)
  /\ Emptied(r)
  /\ Goto(r, "sending")
  /\ UNCHANGED <<threshold, next, okPeers, out, late, nodeVars, drain, faults>>

\* One iteration of broadcastIntent's loop: a failed send is noted, and the
\* loop goes on to the next guardian.
ClientSend(r, o) == SendIntent(r, o) /\ UNCHANGED wiped

\* pollVerdicts begins, however many sends failed.
ClientListen(r) ==
  /\ WebIsFree
  /\ phase[r] = "sending"
  /\ next[r] > Len(Peers)
  /\ Goto(r, "poll")
  /\ UNCHANGED <<threshold, next, okPeers, out, late, nodeVars, spool, drain, faults, wiped>>

\* The loop goes on: before the deadline, with rows missing.
ClientPolling(r) ==
  /\ phase[r] = "poll"
  /\ ~late[r]
  /\ Cardinality(out[r]) < Len(Peers)

\* drainStrayVerdicts: the file is read ...
ClientDrainRead(r) ==
  /\ WebIsFree
  /\ ClientPolling(r)
  /\ drain' = [by |-> r, rows |-> spool]
  /\ UNCHANGED <<webVars, nodeVars, spool, faults, wiped>>

\* pushVerdict: a row is kept once.
PushVerdicts(r, rows) == out' = [out EXCEPT ![r] = @ \cup rows]

\* ... and emptied, with what the listener wrote in between. Every row read is
\* pushed, then /recv is asked.
ClientDrain(r) ==
  /\ drain.by = r
  /\ spool' = <<>>
  /\ drain' = NotDraining
  /\ PushVerdicts(r, Lines(drain.rows))
  /\ Goto(r, "recv")
  /\ UNCHANGED <<threshold, next, okPeers, late, nodeVars, faults, wiped>>

\* /recv does not answer: reported, and tried again with the next iteration.
RecvFails(r) ==
  /\ WebIsFree
  /\ phase[r] = "recv"
  /\ Goto(r, "poll")
  /\ UNCHANGED <<threshold, next, okPeers, out, late, nodeVars, spool, drain, faults>>

\* axlRecvFetch, axlBodyToJson: one message of the hub's queue. A verdict is
\* pushed, an intent that was meant for the hub's listener is dropped.
ClientRecv(r) == (PollRecv(r) \/ RecvFails(r)) /\ UNCHANGED wiped

ClientExpire(r) == Expire(r) /\ UNCHANGED wiped

\* The rows are returned: enough of them, or the time is over.
ClientDone(r) ==
  /\ WebIsFree
  /\ phase[r] = "poll"
  /\ ~ClientPolling(r)
  /\ Goto(r, "decided")
  /\ UNCHANGED <<threshold, next, okPeers, out, late, nodeVars, spool, drain, faults, wiped>>

ClientStep(r) ==
  \/ ClientUnreachable(r)
  \/ ClientStart(r)
  \/ \E o \in SendOutcomes : ClientSend(r, o)
  \/ ClientListen(r)
  \/ ClientDrainRead(r)
  \/ ClientDrain(r)
  \/ ClientRecv(r)
  \/ ClientExpire(r)
  \/ ClientDone(r)

\* The listeners and the nodes do not know who sent an intent.
NodeStep ==
  /\ \/ \E g \in Node : ListenerStep(g) \/ ListenerRestart(g)
     \/ \E p \in net : Deliver(p)
  /\ UNCHANGED wiped

ClientNext == NodeStep \/ \E r \in Req : ClientStep(r)

ClientSpec == ClientInit /\ [][ClientNext]_clientVars

-----------------------------------------------------------------------------
\* No round reports a verdict that a round emptied out of the spool: not the
\* round that found it there, and not one that reads the spool or the queue
\* later, whatever the hub's listener still writes.
WipedNeverReported ==
  \A r, s \in Req : wiped[r] \cap out[s] = {}
=============================================================================
