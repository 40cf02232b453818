---------------------------- MODULE ENSRegistrar ---------------------------
(***************************************************************************)
(* Registering a second-level .eth name by commit and reveal: requests of  *)
(* Web/app/api/guardmesh/ens-register and runs of register-ens-sepolia.mjs *)
(* side by side, paid by one wallet. The controller contract is external.  *)
(* Others register names at any moment; a process may die between steps.   *)
(***************************************************************************)
EXTENDS Naturals, FiniteSets

CONSTANTS
  Request,   \* requests of the route
  Script,    \* runs of the script
  Label,
  Party,     \* owners of names
  Nobody,
  Budget     \* what the payer has, in registrations

ASSUME RegistrarAssumption ==
  /\ Request \cap Script = {}
  /\ Nobody \notin Party
  /\ Budget \in Nat

VARIABLES
  ethOwner,    \* the owner of each name, Nobody when it is available
  funds,       \* balance of the payer
  commitment,  \* of each job's secret: "none", "young", or of the minimum age
  tx,          \* the transaction a job waits for: "none", "sent", "mined", "reverted"
  job,
  taken        \* history: the names a job's own transaction registered

registrarVars == <<ethOwner, funds, commitment, tx, job, taken>>

Job == Request \cup Script

Unborn == [pc |-> "idle", label |-> Nobody, owner |-> Nobody]

Pc == {"idle", "available", "price", "commit", "committing", "waiting", "register",
       "registering", "registered", "already", "error", "dead"}

RegistrarTypeOK ==
  /\ ethOwner \in [Label -> Party \cup {Nobody}]
  /\ funds \in 0 .. Budget
  /\ commitment \in [Job -> {"none", "young", "aged"}]
  /\ tx \in [Job -> {"none", "sent", "mined", "reverted"}]
  /\ job \in [Job -> [pc : Pc, label : Label \cup {Nobody}, owner : Party \cup {Nobody}]]
  /\ taken \in [Job -> BOOLEAN]

RegistrarInit ==
  /\ ethOwner = [l \in Label |-> Nobody]
  /\ funds = Budget
  /\ commitment = [j \in Job |-> "none"]
  /\ tx = [j \in Job |-> "none"]
  /\ job = [j \in Job |-> Unborn]
  /\ taken = [j \in Job |-> FALSE]

-----------------------------------------------------------------------------
(* The controller                                                          *)

\* The transaction a job has sent is executed: a commitment is recorded, a
\* registration goes through when the name is available, the commitment of the
\* minimum age and the price paid. A second one for the same name reverts.
Execute(j) ==
  /\ tx[j] = "sent"
  /\ LET goes == /\ ethOwner[job[j].label] = Nobody
                 /\ commitment[j] = "aged"
                 /\ funds > 0
     IN \/ /\ commitment[j] = "none"
           /\ commitment' = [commitment EXCEPT ![j] = "young"]
           /\ tx' = [tx EXCEPT ![j] = "mined"]
           /\ UNCHANGED <<ethOwner, funds, taken>>
        \/ /\ commitment[j] # "none" /\ goes
           /\ ethOwner' = [ethOwner EXCEPT ![job[j].label] = job[j].owner]
           /\ funds' = funds - 1
           /\ taken' = [taken EXCEPT ![j] = TRUE]
           /\ tx' = [tx EXCEPT ![j] = "mined"]
           /\ UNCHANGED commitment
        \/ /\ commitment[j] # "none" /\ ~goes
           /\ tx' = [tx EXCEPT ![j] = "reverted"]
           /\ UNCHANGED <<ethOwner, funds, commitment, taken>>
  /\ UNCHANGED job

\* Somebody else registers a name.
OthersRegister ==
  /\ \E l \in Label, p \in Party :
       ethOwner[l] = Nobody /\ ethOwner' = [ethOwner EXCEPT ![l] = p]
  /\ UNCHANGED <<funds, commitment, tx, job, taken>>

-----------------------------------------------------------------------------
(* A job                                                                   *)

Goto(j, pc) == job' = [job EXCEPT ![j].pc = pc]
Remote      == UNCHANGED <<ethOwner, funds, commitment, taken>>

\* POST with a label the route can parse and, by default, the payer's address;
\* the script registers for its own wallet.
Begin(j, l, p) ==
  /\ job[j].pc = "idle"
  /\ job' = [job EXCEPT ![j] = [pc |-> "available", label |-> l, owner |-> p]]
  /\ UNCHANGED tx /\ Remote

\* A name that is taken: the route answers ok, whoever the owner is, with the
\* requester as "owner"; the script gives up.
Available(j) ==
  /\ job[j].pc = "available"
  /\ Goto(j, IF ethOwner[job[j].label] = Nobody THEN "price"
             ELSE IF j \in Request THEN "already" ELSE "error")
  /\ UNCHANGED tx /\ Remote

\* rentPrice and the payer's balance
Affordable(j) ==
  /\ job[j].pc = "price"
  /\ Goto(j, IF funds > 0 THEN "commit" ELSE "error")
  /\ UNCHANGED tx /\ Remote

Commit(j) ==
  /\ job[j].pc = "commit"
  /\ tx' = [tx EXCEPT ![j] = "sent"] /\ Goto(j, "committing") /\ Remote

\* commitTx.wait(1)
Committed(j) ==
  /\ job[j].pc = "committing" /\ tx[j] = "mined"
  /\ tx' = [tx EXCEPT ![j] = "none"] /\ Goto(j, "waiting") /\ Remote

\* MIN_COMMIT_WAIT_SECONDS after the receipt the commitment is of age.
Waited(j) ==
  /\ job[j].pc = "waiting"
  /\ commitment' = [commitment EXCEPT ![j] = "aged"]
  /\ Goto(j, "register")
  /\ UNCHANGED <<ethOwner, funds, tx, taken>>

\* Mutant: the answer is given before the receipt.
Mut_NoReceipt(j) ==
  /\ job[j].pc = "register"
  /\ tx' = [tx EXCEPT ![j] = "sent"] /\ Goto(j, "registered") /\ Remote

Register(j) ==
  /\ job[j].pc = "register"
  /\ tx' = [tx EXCEPT ![j] = "sent"] /\ Goto(j, "registering") /\ Remote

\* registerTx.wait(1) rejects when the transaction reverted.
RegisterDone(j) ==
  /\ job[j].pc = "registering" /\ tx[j] \in {"mined", "reverted"}
  /\ Goto(j, IF tx[j] = "mined" THEN "registered" ELSE "error")
  /\ UNCHANGED tx /\ Remote

Working == Pc \ {"idle", "registered", "already", "error", "dead"}

\* Any call fails; a transaction that is out may still be executed. The route
\* answers the error. The script prints it, and its exit code is 0.
JobFails(j) == job[j].pc \in Working \ {"waiting"} /\ Goto(j, "error") /\ UNCHANGED tx /\ Remote

\* The process ends: the secret is lost with it.
JobDies(j) == job[j].pc \in Working /\ Goto(j, "dead") /\ UNCHANGED tx /\ Remote

JobStep(j) == \/ Available(j) \/ Affordable(j) \/ Commit(j) \/ Committed(j) \/ Waited(j)
              \/ Register(j) \/ RegisterDone(j) \/ JobFails(j)

RegistrarNext ==
  \/ OthersRegister
  \/ \E j \in Job : \/ JobStep(j) \/ JobDies(j) \/ Execute(j)
                    \/ \E l \in Label, p \in Party : Begin(j, l, p)

RegistrarSpec == RegistrarInit /\ [][RegistrarNext]_registrarVars

(***************************************************************************)
(* Properties                                                              *)
(***************************************************************************)

\* An ok answer names an existing name, so the page links no agent to a name
\* nobody has; one that says it registered the name did so itself, for the owner
\* asked for. Requests for one name race with each other, with scripts and with
\* strangers, and funds checked before the wait are spent by another job.
AnsweredNamesExist ==
  \A j \in Job :
    /\ job[j].pc = "already" => ethOwner[job[j].label] # Nobody
    /\ job[j].pc = "registered" => taken[j] /\ ethOwner[job[j].label] = job[j].owner
=============================================================================
