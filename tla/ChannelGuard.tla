---------------------------- MODULE ChannelGuard ----------------------------
(***************************************************************************)
(* Web/lib/openclaw-channel-guard.ts: whether the OpenClaw agent answers a *)
(* message of an enterprise channel, under the operator's configuration of *)
(* that channel. Pure operators.                                           *)
(***************************************************************************)
EXTENDS FiniteSets

CONSTANTS
  None,  \* a field of the configuration or of the message that is not there
  Any    \* the entry "*" of a list of users

\* DEFAULT_POLICY, the same for every channel; also the configuration of which
\* every field is missing or of the wrong type.
DefaultPolicy ==
  [enabled |-> TRUE, dmEnabled |-> TRUE, dmPolicy |-> "pairing",
   groupPolicy |-> "allowlist", requireMention |-> TRUE, allowFrom |-> {},
   groupAllowFrom |-> {}, allowedUsers |-> {}, allowedGroups |-> {}]

\* coercePolicy for one channel: raw is None when the configuration has no such
\* channel, or is no JSON. dm and dmEnabled stand for r.dm.enabled and
\* r.dmEnabled, nested for r.dm.policy; a list that is no array is empty.
Coerce(raw) ==
  IF raw = None THEN DefaultPolicy ELSE
  [enabled |-> raw.enabled # FALSE,
   dmEnabled |-> raw.dmEnabled # FALSE /\ raw.dm # FALSE,
   dmPolicy |-> LET given == {"allowlist", "open", "disabled"} IN
                IF raw.dmPolicy \in given THEN raw.dmPolicy
                ELSE IF raw.nested \in given THEN raw.nested ELSE "pairing",
   groupPolicy |-> IF raw.groupPolicy \in {"open", "disabled"} THEN raw.groupPolicy
                   ELSE "allowlist",
   requireMention |-> raw.requireMention # FALSE,
   allowFrom |-> raw.allowFrom, groupAllowFrom |-> raw.groupAllowFrom,
   allowedUsers |-> raw.allowedUsers, allowedGroups |-> raw.allowedGroups]

\* inAnyAllowlist, for a user that is given
Listed(user, list) == user # None /\ (Any \in list \/ user \in list)

\* evaluateChannelGuard for a message [user, group, mentioned] under policy p; a
\* message without a group is a direct message.
GroupOk(p, m) ==
  LET users == p.allowedUsers \cup p.groupAllowFrom \cup p.allowFrom IN
  /\ p.groupPolicy # "disabled"
  /\ p.groupPolicy = "allowlist" => m.group \in p.allowedGroups
  /\ p.requireMention => m.mentioned
  /\ users # {} => Listed(m.user, users)
  /\ p.allowedGroups # {} => m.group \in p.allowedGroups
  /\ p.groupAllowFrom # {} => m.user # None

DirectOk(p, m) ==
  /\ p.dmEnabled
  /\ p.dmPolicy # "disabled"
  /\ p.dmPolicy \in {"allowlist", "pairing"} => Listed(m.user, p.allowedUsers \cup p.allowFrom)

\* Mutant: pairing needs no list.
Mut_PairingIsOpen(p, m) ==
  /\ p.enabled
  /\ IF m.group # None THEN GroupOk(p, m)
     ELSE /\ p.dmEnabled
          /\ p.dmPolicy # "disabled"
          /\ p.dmPolicy = "allowlist" => Listed(m.user, p.allowedUsers \cup p.allowFrom)

\* Mutant: a listed group is answered although groups are disabled.
Mut_GroupsStayOpen(p, m) ==
  LET open == [p EXCEPT !.groupPolicy = IF @ = "disabled" THEN "allowlist" ELSE @] IN
  /\ p.enabled
  /\ IF m.group # None THEN GroupOk(open, m) ELSE DirectOk(p, m)

Guard(p, m) == p.enabled /\ IF m.group # None THEN GroupOk(p, m) ELSE DirectOk(p, m)

(***************************************************************************)
(* What the operator asked for, read off the configuration itself. Nothing *)
(* is answered in a channel that is not configured or is disabled, nor in  *)
(* groups, or directly, where those are disabled. In a group, the group is *)
(* listed, unless groups are open and none is; the agent is mentioned,     *)
(* unless that is waived; the sender is listed, if anybody is. A direct    *)
(* message is from somebody listed, unless those are open. Of the two      *)
(* places to set the latter the first counts, if it says anything known.   *)
(***************************************************************************)
Admits(raw, m) ==
  LET OneOf(users) == m.user # None /\ {m.user, Any} \cap users # {}
      listed == raw.allowedUsers \cup raw.groupAllowFrom \cup raw.allowFrom
      direct == IF raw.dmPolicy \in {"allowlist", "open", "disabled"} THEN raw.dmPolicy
                                                                    ELSE raw.nested
  IN
  /\ raw # None /\ raw.enabled # FALSE
  /\ \/ /\ m.group # None
        /\ raw.groupPolicy # "disabled"
        /\ \/ m.group \in raw.allowedGroups
           \/ raw.groupPolicy = "open" /\ raw.allowedGroups = {}
        /\ m.mentioned \/ raw.requireMention = FALSE
        /\ listed = {} \/ OneOf(listed)
     \/ /\ m.group = None
        /\ FALSE \notin {raw.dmEnabled, raw.dm} /\ direct # "disabled"
        /\ \/ direct = "open"
           \/ OneOf(raw.allowedUsers \cup raw.allowFrom)
=============================================================================
