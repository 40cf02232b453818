---------------------------- MODULE MCRecords ----------------------------
(* Four scenes, told apart in the initial state: the registry with two     *)
(* wallets, two agents and two names to fight over; a guardian that links  *)
(* its name in that registry; names registered with ENS; and the readers   *)
(* of a ledger with two roots, of one intent with two tallies, two reasons *)
(* and one policy that two kinds of gates report.                          *)
EXTENDS GuardianENS, ENSRegistrar, AuditReaders, TLC

CONSTANTS w1, w2, c, a1, a2, n1, n2, scope, rules, k1, t1, r1, r2, s1, m1, m2, i1, p1, o1, o2, f1, f2

VARIABLE scene

\* The codes next to the range the contract accepts, and one within it.
TriedThresholds == {0, 3, 4}

Entries == [root : Root, decision : Decision, by : {"server", "others"}]

OneDecision == {[intent |-> i1, tally |-> 3, execute |-> TRUE, rest |-> o1]}

\* Differs from the server's decision in what nobody compares, and from the
\* other bundle in the counts.
OneClaim == {[intent |-> i1, tally |-> 3, execute |-> TRUE, rest |-> o2]}

Gate(source) == [policy |-> p1, source |-> source]

\* Guardians that agree, and guardians that do not.
OneOrTwo == {{Gate("chain")}, {Gate("chain"), Gate("kv_or_chain")}}

OneOther == {[decision |-> [intent |-> i1, tally |-> 2, execute |-> TRUE, rest |-> o2],
              used |-> {Gate("chain")}, snapshot |-> Gate("chain"), by |-> "others"]}

SameSlots == Permutations(Fetch)

RecordsInit ==
  /\ Init /\ GuardianInit /\ RegistrarInit /\ ReadersInit
  /\ scene \in {"registry", "guardian", "registrar", "readers"}
  /\ scene # "guardian" => ~oneChain

RecordsNext ==
  /\ \/ scene = "registry" /\ Next /\ UNCHANGED <<guardianVars, registrarVars, auditVars>>
     \/ scene = "guardian" /\ GuardianNext /\ UNCHANGED <<registrarVars, auditVars>>
     \/ scene = "registrar" /\ RegistrarNext /\ UNCHANGED <<allVars, auditVars>>
     \/ scene = "readers" /\ ReadersNext /\ UNCHANGED <<allVars, registrarVars>>
  /\ UNCHANGED scene

RecordsSpec ==
  RecordsInit /\ [][RecordsNext]_<<allVars, registrarVars, auditVars, scene>>
=============================================================================
