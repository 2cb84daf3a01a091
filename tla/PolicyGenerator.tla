---------------------------- MODULE PolicyGenerator ----------------------------
(***************************************************************************)
(* The policies of the input generators                                    *)
(* (cedar-policy-generators/src/policy.rs, policy_set.rs and rbac.rs) and  *)
(* the policy sets the fuzz targets build of them. A policy with a slot in *)
(* its scope is a template; the rbac target links its templates, under IDs *)
(* it makes up, and a generated policy set keeps the IDs it draws. Every   *)
(* addition to a policy set is unwrapped: one that is refused is a panic.  *)
(***************************************************************************)
EXTENDS Integers, Sequences, FiniteSets

CONSTANTS
    MaxPolicies, \* policies, or groups of the rbac target
    MaxLinks,    \* links of one template
    DrawnIds     \* the IDs a generated policy set draws from

ASSUME PolicyConstants == MaxPolicies \in Nat /\ MaxLinks \in Nat

VARIABLES
    source,      \* "rbac", "policyset" or "abac"
    scopes,      \* the policies in order: an ID, and what is in their scope
    links,       \* the links of each policy: an ID, and the slots that have a value
    added,       \* the policies in the policy set
    policyStage  \* "policies", "add", "built", "panicked" or "failed"

policyVars == <<source, scopes, links, added, policyStage>>

Slots == {"principal", "resource"}

\* What a scope has for its principal or resource: a slot, a UID or a type, or nothing.
Scopes == [Slots -> {"slot", "given"}]

\* has_slots
SlotsOf(scope) == {s \in Slots : scope[s] = "slot"}

PolicyInit ==
    /\ source \in {"rbac", "policyset", "abac"}
    /\ scopes = <<>> /\ links = <<>> /\ added = {}
    /\ policyStage = "policies"

\* Too few bytes, or a hierarchy without entities to choose from.
PolicyFails ==
    /\ policyStage = "policies"
    /\ policyStage' = "failed"
    /\ scopes' = <<>> /\ links' = <<>>
    /\ UNCHANGED <<source, added>>

\* arbitrary_slot_value: the slots that a link gives a value.
ValuesOf(scope) == SlotsOf(scope)

\* The IDs the rbac target makes: p0, p1 ... for its groups, t0_l0, t0_l1 ... for the links of
\* the template of a group.
PolicyIdOf(group) == <<"p", group>>
LinkIdOf(group, link) == <<"t", group, "l", link>>

\* A group: a static policy, or a template with one link or more.
MakeGroup ==
    /\ source = "rbac"
    /\ policyStage = "policies" /\ Len(scopes) < MaxPolicies
    /\ LET g == Len(scopes) IN
       \E scope \in Scopes :
          /\ scopes' = Append(scopes, [id |-> PolicyIdOf(g), scope |-> scope])
          /\ \E n \in IF SlotsOf(scope) = {} THEN {0} ELSE 1..MaxLinks :
                links' = Append(links, [i \in 1..n |-> [id |-> LinkIdOf(g, i - 1), values |-> ValuesOf(scope)]])
    /\ UNCHANGED <<source, added, policyStage>>

\* Mutation of IsNew: an ID that was drawn before is not skipped.
IsNewAlways(id) == TRUE

\* The IDs that were drawn are remembered, and a policy is made for new ones.
IsNew(id) == \A i \in DOMAIN scopes : scopes[i].id # id

\* GeneratedPolicySet::arbitrary_for_hierarchy. Its templates are not linked.
MakePolicy ==
    /\ source = "policyset"
    /\ policyStage = "policies" /\ Len(scopes) < MaxPolicies
    /\ \E id \in DrawnIds, scope \in Scopes :
          /\ IsNew(id)
          /\ scopes' = Append(scopes, [id |-> id, scope |-> scope])
          /\ links' = Append(links, <<>>)
    /\ UNCHANGED <<source, added, policyStage>>

\* arbitrary_policy of a schema: the constraints it makes have no slots. The targets that use
\* it have one policy.
MakeAbacPolicy ==
    /\ source = "abac"
    /\ policyStage = "policies" /\ scopes = <<>>
    /\ \E id \in DrawnIds :
          scopes' = <<[id |-> id, scope |-> [s \in Slots |-> "given"]]>>
    /\ links' = << <<>> >>
    /\ UNCHANGED <<source, added, policyStage>>

PoliciesMade ==
    /\ policyStage = "policies" /\ scopes # <<>>
    /\ policyStage' = "add"
    /\ UNCHANGED <<source, scopes, links, added>>

-----------------------------------------------------------------------------
(* Building the policy set *)

InUse(id) == \E p \in added : p.id = id

\* add_to_policyset, or add and add_template: what has a slot goes in as a template. It is
\* refused when its ID is in the policy set already.
AddPolicy ==
    /\ policyStage = "add" /\ scopes # <<>>
    /\ LET p == Head(scopes) IN
       IF InUse(p.id) THEN policyStage' = "panicked" /\ UNCHANGED <<scopes, links, added>>
       ELSE /\ added' = added \cup {[id |-> p.id, slots |-> SlotsOf(p.scope), of |-> p.id]}
            /\ IF Head(links) = <<>> THEN /\ scopes' = Tail(scopes) /\ links' = Tail(links)
                                          /\ UNCHANGED policyStage
               ELSE policyStage' = "link" /\ UNCHANGED <<scopes, links>>
    /\ UNCHANGED source

\* link: refused when the ID is in use, the template is not there, or the values are not those
\* of its slots.
AddLink ==
    /\ policyStage = "link"
    /\ LET p    == Head(scopes)
           next == Head(Head(links))
           rest == Tail(Head(links))
       IN  IF InUse(next.id) \/ [id |-> p.id, slots |-> next.values, of |-> p.id] \notin added
           THEN policyStage' = "panicked" /\ UNCHANGED <<scopes, links, added>>
           ELSE /\ added' = added \cup {[id |-> next.id, slots |-> {}, of |-> p.id]}
                /\ IF rest = <<>> THEN /\ scopes' = Tail(scopes) /\ links' = Tail(links)
                                       /\ policyStage' = "add"
                   ELSE links' = [links EXCEPT ![1] = rest] /\ UNCHANGED <<scopes, policyStage>>
    /\ UNCHANGED source

PoliciesBuilt ==
    /\ policyStage = "add" /\ scopes = <<>>
    /\ policyStage' = "built"
    /\ UNCHANGED <<source, scopes, links, added>>

PolicyNext ==
    \/ PolicyFails \/ MakeGroup \/ MakePolicy \/ MakeAbacPolicy \/ PoliciesMade
    \/ AddPolicy \/ AddLink \/ PoliciesBuilt

PolicySpec == PolicyInit /\ [][PolicyNext]_policyVars

-----------------------------------------------------------------------------
(* Properties *)

PolicyTypes ==
    /\ source \in {"rbac", "policyset", "abac"}
    /\ Len(scopes) <= MaxPolicies + 1 /\ Len(links) = Len(scopes)
    /\ \A i \in DOMAIN scopes : scopes[i].scope \in Scopes
    /\ policyStage \in {"policies", "add", "link", "built", "panicked", "failed"}

\* No addition of a policy, a template or a link is refused, whatever IDs are drawn and
\* wherever the slots are; in the policy set every ID stands for one policy, every link
\* for a template that is there, and in the rbac target every template has a link.
PoliciesLink ==
    /\ policyStage # "panicked"
    /\ \A p, q \in added : p.id = q.id => p = q
    /\ \A p \in added : p.of # p.id => \E t \in added : t.id = p.of /\ t.slots # {}
    /\ policyStage = "built" /\ source = "rbac" =>
          \A t \in added : t.slots # {} => \E p \in added : p.of = t.id /\ p # t
=============================================================================
