------------------------------- MODULE MCSymcc --------------------------------
(***************************************************************************)
(* Symcc with all the fuzz targets and all the callers of a solver. Four   *)
(* queries on a limit of two reach a process that is replaced, and one that *)
(* was replaced before; two checks reach one after a check that came to    *)
(* an end in any way.                                                     *)
(*                                                                         *)
(* The encoder has a small schema: an entity type E whose attributes are a *)
(* record with a nested record, an enumeration C, and decimals. The asserts *)
(* share types, functions and terms in different orders, so that what one  *)
(* call finds in the tables another has to declare, and some of them fail  *)
(* half way.                                                               *)
(***************************************************************************)
EXTENDS Symcc

Item(form, parts) == [form |-> form, parts |-> parts]

TypeTable ==
    [Bool |-> Item("builtin", <<>>),
     Bits |-> Item("builtin", <<>>),
     E    |-> Item("entity", <<>>),
     C    |-> Item("entity", <<>>),
     D    |-> Item("ext", <<>>),
     OptE |-> Item("wrapper", <<"E">>),
     SetC |-> Item("wrapper", <<"C">>),
     Sets |-> Item("wrapper", <<"OptE">>),
     R1   |-> Item("record", <<"Bool", "D", "E">>),
     R2   |-> Item("record", <<"OptE", "R1">>)]

FunTable ==
    [attrs |-> Item("fun", <<"E", "R2">>),
     ancs  |-> Item("fun", <<"E", "SetC">>)]

TermTable ==
    [true   |-> Item("literal", <<"Bool">>),
     bad    |-> Item("literal", <<"Bits">>),
     bits   |-> Item("literal", <<"Bits">>),
     v      |-> Item("var", <<"E">>),
     w      |-> Item("var", <<"R2">>),
     e1     |-> Item("euid", <<"E">>),
     red    |-> Item("euid", <<"C">>),
     green  |-> Item("euid", <<"C">>),
     blue   |-> Item("euid", <<"C">>),
     dec    |-> Item("apply", <<"D">>),
     attrsV |-> Item("apply", <<"R2", "v", "attrs">>),
     inner  |-> Item("get", <<"R1", "attrsV">>),
     innerW |-> Item("get", <<"R1", "w">>),
     owner  |-> Item("get", <<"E", "inner">>),
     price  |-> Item("get", <<"D", "innerW">>),
     gone   |-> Item("get", <<"E", "innerW">>),
     same   |-> Item("apply", <<"Bool", "owner", "e1">>),
     cheap  |-> Item("apply", <<"Bits", "price">>),
     less   |-> Item("apply", <<"Bool", "cheap", "bits">>),
     worse  |-> Item("apply", <<"Bool", "cheap", "bad">>),
     ancsV  |-> Item("apply", <<"SetC", "v", "ancs">>),
     isRed  |-> Item("apply", <<"Bool", "green", "ancsV">>),
     isBlue |-> Item("apply", <<"Bool", "blue", "ancsV">>),
     none   |-> Item("apply", <<"Sets">>),
     noneOf |-> Item("apply", <<"Bool", "none", "gone">>),
     both   |-> Item("apply", <<"Bool", "same", "less", "isRed">>)]

MCTypes == DOMAIN TypeTable
MCFuns  == DOMAIN FunTable
MCTerms == DOMAIN TermTable

Row(x) == IF x \in MCTypes THEN TypeTable[x] ELSE IF x \in MCFuns THEN FunTable[x] ELSE TermTable[x]

MCForm(x)  == Row(x).form
MCParts(x) == Row(x).parts

RECURSIVE MCRank(_)
MCRank(x) ==
    LET below == {MCRank(MCParts(x)[i]) : i \in DOMAIN MCParts(x)}
    IN  IF below = {} THEN 0 ELSE 1 + CHOOSE n \in below : \A m \in below : m <= n

MCEid(x)   == x
MCField(x) == CASE x = "inner" -> 2 [] x = "innerW" -> 2 [] x = "owner" -> 3 [] x = "price" -> 2 [] OTHER -> 0
MCNeeds(x) == IF x \in {"dec", "cheap"} THEN {"D"} ELSE {}
MCUnsayable == {"bad"}

Members == [C |-> <<"red", "green">>]
NoMembers == [y \in {} |-> <<>>]

Asserts == {"true", "same", "less", "worse", "isRed", "isBlue", "noneOf", "both"}
MCJobs ==
    [asserts : {<<a>> : a \in Asserts} \cup {<<a, b>> : a, b \in Asserts},
     members : {Members, NoMembers}]
=============================================================================
