------------------------------- MODULE MCCedar -------------------------------
(***************************************************************************)
(* A small world for the Cedar evaluators: two users, a missing user, a    *)
(* group, a document and an action; a few stores; and a pool of well-typed *)
(* Boolean policy bodies that reach every operator.                        *)
(***************************************************************************)
EXTENDS CedarTPE, TLC

U(e) == [ty |-> "User", eid |-> e]
alice == U("alice")
bob   == U("bob")
ghost == U("ghost")                           \* in no store
staff == [ty |-> "Group", eid |-> "staff"]
doc   == [ty |-> "Doc", eid |-> "doc"]
read  == [ty |-> "Action", eid |-> "read"]

MCIntMin == -3
MCIntMax == 3
MCUids == {alice, bob, ghost, staff, doc, read}
MCUidRank == (doc :> 1) @@ (staff :> 2) @@ (alice :> 3) @@ (bob :> 4) @@ (ghost :> 5) @@ (read :> 0)
MCExtLiterals == ("1h" :> 1) @@ ("2h" :> 2) @@ ("now" :> 3)

\* Attributes of a user: admin and age are required, boss is optional. Tags are users.
User(admin, age, boss, tags, groups) ==
    [attrs |-> ("admin" :> BoolV(admin)) @@ ("age" :> IntV(age)) @@ boss,
     ancestors |-> groups, tags |-> tags]
Boss(u) == "boss" :> UidV(u)
Doc(owner) == [attrs |-> "owner" :> UidV(owner), ancestors |-> {}, tags |-> NoFields]
Plain == [attrs |-> NoFields, ancestors |-> {}, tags |-> NoFields]

\* alice works for bob, who is an admin in the group and works for a user that is not there.
ChainStore ==
    (alice :> User(FALSE, 1, Boss(bob), "mate" :> UidV(bob), {})) @@
    (bob   :> User(TRUE, 3, Boss(ghost), NoFields, {staff})) @@
    (staff :> Plain) @@ (doc :> Doc(bob)) @@ (read :> Plain)

\* The document is alice's, who is her own boss; bob is not there at all.
SelfStore ==
    (alice :> User(TRUE, 2, Boss(alice), "mate" :> UidV(alice), {staff})) @@
    (doc :> Doc(alice))

MCStores == {ChainStore, SelfStore}

MCRequest == [principal |-> alice, action |-> read, resource |-> doc,
              context |-> "peer" :> UidV(bob)]

-----------------------------------------------------------------------------
(* Bodies. *)

P == Var("principal")
R == Var("resource")
UidX(u) == Lit(UidV(u))
StrX(s) == Lit(StrV(s))
IntX(n) == Lit(IntV(n))
Admin(x) == GetAttrX(x, "admin")
Age(x)   == GetAttrX(x, "age")
Owner    == GetAttrX(R, "owner")
BossOf(x) == GetAttrX(x, "boss")
HasBoss(x) == HasAttrX(x, "boss")
In(x, y) == Binary("mem", x, y)
Eq(x, y) == Binary("eq", x, y)
Not(x)   == Unary("not", x)
MateOf(x) == Binary("getTag", x, StrX("mate"))

OwnerIsPrincipal == Eq(Owner, P)
OwnerAdmin  == Admin(Owner)
BossAdmin   == And(HasBoss(P), Admin(BossOf(P)))
BossBoss    == And(HasBoss(P), And(HasBoss(BossOf(P)), Admin(BossOf(BossOf(P)))))
InStaff     == In(P, UidX(staff))
InSetOf     == In(Owner, SetX(<<UidX(staff), UidX(alice)>>))
MateAdmin   == And(Binary("hasTag", P, StrX("mate")), Admin(MateOf(P)))
Branch      == Ite(Admin(P), OwnerAdmin, Not(InStaff))
AgeOverflow == Binary("less", Binary("add", Age(Owner), IntX(1)), IntX(3))
PeerAdmin   == Admin(GetAttrX(Var("context"), "peer"))
GhostAdmin  == Admin(UidX(ghost))
GhostBoss   == HasBoss(UidX(ghost))
ErrorThenFalse == And(GhostAdmin, BoolX(FALSE))
SafeThenFalse  == And(InStaff, BoolX(FALSE))
ErrorOrTrue    == Or(BossAdmin, BoolX(TRUE))
NegAge      == And(Binary("less", Unary("neg", Age(P)), IntX(0)), BoolX(FALSE))
BossIsPrincipal == And(HasBoss(Owner), Eq(BossOf(Owner), P))
InRecord    == Admin(GetAttrX(RecordX(<<[a |-> "f", x |-> Owner], [a |-> "g", x |-> P]>>), "f"))
TwiceInRecord == Admin(GetAttrX(RecordX(<<[a |-> "f", x |-> Owner], [a |-> "f", x |-> P]>>), "f"))
SetContains == Binary("contains", SetX(<<Owner, P>>), UidX(bob))
SetSame     == Binary("containsAll", SetX(<<Owner>>), SetX(<<P>>))
Later == Binary("less", CallX("datetime", <<StrX("now")>>),
                CallX("offset", <<CallX("datetime", <<StrX("now")>>),
                                  CallX("duration", <<StrX("1h")>>)>>))
IsUser      == And(IsX(R, "Doc"), IsX(Owner, "User"))
ActionIs    == And(Eq(Var("action"), UidX(read)), OwnerIsPrincipal)
OrChain     == Or(Eq(P, Owner), Or(InStaff, HasBoss(Owner)))

MCBodies ==
    {BoolX(TRUE), OwnerIsPrincipal, OwnerAdmin, BossAdmin, BossBoss, InStaff, InSetOf,
     MateAdmin, Branch, AgeOverflow, PeerAdmin, GhostAdmin, GhostBoss, ErrorThenFalse,
     SafeThenFalse, ErrorOrTrue, NegAge, InRecord, TwiceInRecord, SetContains, SetSame,
     Later, IsUser, ActionIs, OrChain, BossIsPrincipal}

\* The class of a concrete result of a policy.
Class(res) ==
    CASE IsErr(res) -> "error"
      [] res = BoolV(TRUE)  -> "true"
      [] res = BoolV(FALSE) -> "false"
      [] OTHER -> "other"
=============================================================================
