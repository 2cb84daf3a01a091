---------------------------- MODULE TermConversion ----------------------------
(***************************************************************************)
(* What is carried between the Rust programs and Lean, and must mean the   *)
(* same on both sides (cedar-lean-ffi: datatypes.rs, messages.rs, tpe.rs): *)
(* a symbolic term on its way to Lean and back, the environment of a       *)
(* counterexample, and a residual of the partial evaluator.                *)
(*                                                                         *)
(* A term, a type, an operator and a value are tuples with their tag       *)
(* first. A set of Rust is a set, its form on the wire a sequence; a       *)
(* record of Rust is a function, on the wire a sequence of pairs.          *)
(***************************************************************************)
EXTENDS Integers, Sequences, FiniteSets
LOCAL INSTANCE SequencesExt

CONSTANTS
    SentTerms,    \* terms Rust has compiled
    FoundTerms,   \* terms Lean has compiled, as they come
    FoundEnvs,    \* contexts, attributes and tags of the environments Lean has found
    LeftOver,     \* residuals Lean has left
    MaxTermWidth, \* u8::MAX
    V4Width,      \* bits of the prefix of an IPv4 address (5 in Lean)
    V6Width,      \* (7)
    DecimalDigits \* (4)

VARIABLES
    journey,      \* "term", "assert", "env" or "residual"
    origin,       \* what is carried, as it was at first
    item          \* where it is by now, and its form there

conversionVars == <<journey, origin, item>>

place == item[1]
form == item[2]

\* The order in which a set is iterated, and a map by its keys.
InOrder(S) == SetToSeq(S)

PairsOf(f) == LET keys == InOrder(DOMAIN f) IN [i \in DOMAIN keys |-> <<keys[i], f[keys[i]]>>]

\* Collecting pairs into a map: the last of two with one key stays.
Collected(pairs) ==
    [k \in {p[1] : p \in {pairs[i] : i \in DOMAIN pairs}} |->
        LET last == CHOOSE i \in DOMAIN pairs :
                        /\ pairs[i][1] = k
                        /\ \A j \in DOMAIN pairs : pairs[j][1] = k => j <= i
        IN pairs[last][2]]

AddrWidth(v) == IF v = "ipv4" THEN 2 ^ V4Width ELSE 2 ^ V6Width

PrefixWidth(v) == IF v = "ipv4" THEN V4Width ELSE V6Width

-----------------------------------------------------------------------------
(* From a term of the compiler to one of the library: sequences for sets and maps *)

Error == <<"error">>

RECURSIVE WireType(_)
WireType(ty) ==
    CASE ty[1] \in {"option", "set"} -> <<ty[1], WireType(ty[2])>>
      [] ty[1] = "record" -> LET fields == PairsOf(ty[2])
                             IN <<"record", [i \in DOMAIN fields |-> <<fields[i][1], WireType(fields[i][2])>>]>>
      [] OTHER -> <<"prim", ty>>

WirePrim(p) ==
    IF p[1] \in {"ipv4", "ipv6"}
    THEN LET bits(n) == <<PrefixWidth(p[1]), n>>
         IN <<p[1], <<AddrWidth(p[1]), p[2]>>, IF p[3] = <<>> THEN <<>> ELSE <<bits(p[3][1])>>>>
    ELSE p

WireOp(op) ==
    IF op[1] = "uuf" THEN <<"uuf", op[2], WireType(op[3]), WireType(op[4])>> ELSE op

RECURSIVE WireTerm(_)
WireTerm(t) ==
    CASE t[1] = "prim" -> <<"prim", WirePrim(t[2])>>
      [] t[1] = "var"  -> <<"var", t[2], WireType(t[3])>>
      [] t[1] = "none" -> <<"none", WireType(t[2])>>
      [] t[1] = "some" -> <<"some", WireTerm(t[2])>>
      [] t[1] = "set"  -> LET elts == InOrder(t[2])
                          IN <<"set", [i \in DOMAIN elts |-> WireTerm(elts[i])], WireType(t[3])>>
      [] t[1] = "record" -> LET fields == PairsOf(t[2])
                            IN <<"record", [i \in DOMAIN fields |-> <<fields[i][1], WireTerm(fields[i][2])>>]>>
      [] t[1] = "app"  -> <<"app", WireOp(t[2]), [i \in DOMAIN t[3] |-> WireTerm(t[3][i])], WireType(t[4])>>

\* The widths a term holds. Each must fit a u8, or its conversion panics.
RECURSIVE TypeWidths(_), Widths(_)
TypeWidths(ty) ==
    CASE ty[1] = "bitvec" -> {ty[2]}
      [] ty[1] \in {"option", "set"} -> TypeWidths(ty[2])
      [] ty[1] = "record" -> UNION {TypeWidths(ty[2][a]) : a \in DOMAIN ty[2]}
      [] OTHER -> {}

Widths(t) ==
    CASE t[1] = "prim" /\ t[2][1] = "bitvec" -> {t[2][2]}
      [] t[1] = "prim" /\ t[2][1] \in {"ipv4", "ipv6"} -> {AddrWidth(t[2][1]), PrefixWidth(t[2][1])}
      [] t[1] = "var"    -> TypeWidths(t[3])
      [] t[1] = "none"   -> TypeWidths(t[2])
      [] t[1] = "some"   -> Widths(t[2])
      [] t[1] = "set"    -> UNION {Widths(x) : x \in t[2]} \cup TypeWidths(t[3])
      [] t[1] = "record" -> UNION {Widths(t[2][a]) : a \in DOMAIN t[2]}
      [] t[1] = "app"    -> TypeWidths(t[4]) \cup UNION {Widths(t[3][i]) : i \in DOMAIN t[3]}
                            \cup (CASE t[2][1] = "zero_extend" -> {t[2][2]}
                                    [] t[2][1] = "uuf" -> TypeWidths(t[2][3]) \cup TypeWidths(t[2][4])
                                    [] OTHER -> {})
      [] OTHER -> {}

TooWide(t) == \E w \in Widths(t) : w > MaxTermWidth

-----------------------------------------------------------------------------
(* From a term of the library to the message, and what Lean reads in it *)

RECURSIVE MessageType(_)
MessageType(ty) ==
    CASE ty[1] = "record" -> <<"record", [i \in DOMAIN ty[2] |-> <<ty[2][i][1], MessageType(ty[2][i][2])>>]>>
      [] ty[1] = "prim" -> IF ty[2][1] \in {"bitvec", "entity", "ext"} THEN ty ELSE <<"prim", <<"named", ty[2][1]>>>>
      [] OTHER -> <<ty[1], MessageType(ty[2])>>

\* An operator with no parameter is a number of the enumeration BaseOp.
MessageOp(op) ==
    CASE op[1] = "uuf" -> <<"uuf", op[2], MessageType(op[3]), MessageType(op[4])>>
      [] op[1] \in {"zero_extend", "record.get", "string.like", "ext"} -> op
      [] OTHER -> <<"base", op[1]>>

RECURSIVE MessageTerm(_)
MessageTerm(t) ==
    CASE t[1] = "prim" -> t
      [] t[1] = "var"  -> <<"var", t[2], MessageType(t[3])>>
      [] t[1] = "none" -> <<"none", MessageType(t[2])>>
      [] t[1] = "some" -> <<"some", MessageTerm(t[2])>>
      [] t[1] = "set"  -> <<"set", [i \in DOMAIN t[2] |-> MessageTerm(t[2][i])], MessageType(t[3])>>
      [] t[1] = "record" -> <<"record", [i \in DOMAIN t[2] |-> <<t[2][i][1], MessageTerm(t[2][i][2])>>]>>
      [] t[1] = "app"  -> <<"app", MessageOp(t[2]), [i \in DOMAIN t[3] |-> MessageTerm(t[3][i])],
                            MessageType(t[4])>>

RECURSIVE LeanType(_)
LeanType(ty) ==
    CASE ty[1] = "record" -> <<"record", [i \in DOMAIN ty[2] |-> <<ty[2][i][1], LeanType(ty[2][i][2])>>]>>
      [] ty[1] = "prim" -> IF ty[2][1] = "named" THEN <<"prim", <<ty[2][2]>>>> ELSE ty
      [] OTHER -> <<ty[1], LeanType(ty[2])>>

LeanOp(op) ==
    CASE op[1] = "uuf"  -> <<"uuf", op[2], LeanType(op[3]), LeanType(op[4])>>
      [] op[1] = "base" -> <<op[2]>>
      [] OTHER -> op

\* An address of 2^w bits with a prefix of w bits, or nothing.
RightWidths(v, addr, prefix) ==
    /\ addr[1] = AddrWidth(v)
    /\ prefix = <<>> \/ prefix[1][1] = PrefixWidth(v)

LeanPrim(p) ==
    CASE p[1] = "bitvec" -> <<"bitvec", p[2], p[3] % 2 ^ p[2]>>
      [] p[1] \in {"ipv4", "ipv6"} -> IF RightWidths(p[1], p[2], p[3]) THEN p ELSE Error
      [] OTHER -> p

\* Lists stay as they are sent: nothing is sorted.
RECURSIVE LeanTerm(_)
LeanTerm(t) ==
    CASE t[1] = "prim" -> IF LeanPrim(t[2]) = Error THEN Error ELSE <<"prim", LeanPrim(t[2])>>
      [] t[1] = "var"  -> <<"var", t[2], LeanType(t[3])>>
      [] t[1] = "none" -> <<"none", LeanType(t[2])>>
      [] t[1] = "some" -> IF LeanTerm(t[2]) = Error THEN Error ELSE <<"some", LeanTerm(t[2])>>
      [] t[1] = "set"  -> LET elts == [i \in DOMAIN t[2] |-> LeanTerm(t[2][i])]
                          IN IF \E i \in DOMAIN elts : elts[i] = Error
                             THEN Error ELSE <<"set", elts, LeanType(t[3])>>
      [] t[1] = "record" -> LET fields == [i \in DOMAIN t[2] |-> <<t[2][i][1], LeanTerm(t[2][i][2])>>]
                            IN IF \E i \in DOMAIN fields : fields[i][2] = Error
                               THEN Error ELSE <<"record", fields>>
      [] t[1] = "app"  -> LET args == [i \in DOMAIN t[3] |-> LeanTerm(t[3][i])]
                          IN IF \E i \in DOMAIN args : args[i] = Error
                             THEN Error ELSE <<"app", LeanOp(t[2]), args, LeanType(t[4])>>

-----------------------------------------------------------------------------
(* From an answer of Lean to a term of the compiler; a part that does not fit is an error *)

RECURSIVE RustType(_)
RustType(ty) ==
    CASE ty[1] \in {"option", "set"} -> <<ty[1], RustType(ty[2])>>
      [] ty[1] = "record" -> <<"record", Collected([i \in DOMAIN ty[2] |-> <<ty[2][i][1], RustType(ty[2][i][2])>>])>>
      [] ty[1] = "prim"   -> ty[2]

\* ZeroWidthBV; of_nat keeps the value modulo 2^width.
RustBits(w, n) == IF w = 0 THEN Error ELSE <<"bitvec", w, n % 2 ^ w>>

\* try_from_bitvec: an address or a prefix of the wrong width is UnexpectedWidth.
RustPrim(p) ==
    CASE p[1] = "bitvec" -> RustBits(p[2], p[3])
      [] p[1] \in {"ipv4", "ipv6"} ->
            IF RightWidths(p[1], p[2], p[3])
            THEN <<p[1], p[2][2], IF p[3] = <<>> THEN <<>> ELSE <<p[3][1][2]>>>> ELSE Error
      [] OTHER -> p

\* An element of a pattern is a star or a code point; a surrogate is no char.
RustOp(op) ==
    CASE op[1] = "uuf"  -> <<"uuf", op[2], RustType(op[3]), RustType(op[4])>>
      [] op[1] = "string.like" /\ \E i \in DOMAIN op[2] : op[2][i] = "surrogate" -> Error
      [] OTHER -> op

RECURSIVE RustTerm(_)
RustTerm(t) ==
    CASE t[1] = "prim" -> IF RustPrim(t[2]) = Error THEN Error ELSE <<"prim", RustPrim(t[2])>>
      [] t[1] = "var"  -> <<"var", t[2], RustType(t[3])>>
      [] t[1] = "none" -> <<"none", RustType(t[2])>>
      [] t[1] = "some" -> IF RustTerm(t[2]) = Error THEN Error ELSE <<"some", RustTerm(t[2])>>
      [] t[1] = "set"  -> LET elts == {RustTerm(t[2][i]) : i \in DOMAIN t[2]}
                          IN IF Error \in elts THEN Error ELSE <<"set", elts, RustType(t[3])>>
      [] t[1] = "record" -> LET fields == [i \in DOMAIN t[2] |-> <<t[2][i][1], RustTerm(t[2][i][2])>>]
                            IN IF \E i \in DOMAIN fields : fields[i][2] = Error
                               THEN Error ELSE <<"record", Collected(fields)>>
      [] t[1] = "app"  -> LET args == [i \in DOMAIN t[3] |-> RustTerm(t[3][i])]
                          IN IF RustOp(t[2]) = Error \/ \E i \in DOMAIN args : args[i] = Error
                             THEN Error ELSE <<"app", RustOp(t[2]), args, RustType(t[4])>>

-----------------------------------------------------------------------------
(* The value of a counterexample as an expression the Rust evaluator reads *)

\* The digits of n, with zeros in front up to DecimalDigits.
Padded(n) == [i \in 1 .. DecimalDigits |-> (n \div 10 ^ (DecimalDigits - i)) % 10]

\* Taken in 128 bits, so that the least decimal has one too.
Magnitude(n) == IF n < 0 THEN -n ELSE n

\* Mutation of DecimalText: the sign is that of the part before the point.
DecimalTextPlain(d) ==
    LET left == IF d < 0 THEN -(Magnitude(d) \div 10 ^ DecimalDigits) ELSE d \div 10 ^ DecimalDigits
    IN [neg |-> left < 0, left |-> Magnitude(left), right |-> Padded(Magnitude(d) % 10 ^ DecimalDigits)]

DecimalText(d) ==
    [neg |-> d < 0, left |-> Magnitude(d) \div 10 ^ DecimalDigits,
     right |-> Padded(Magnitude(d) % 10 ^ DecimalDigits)]

\* The four parts of an IPv4 address, and the prefix it always shows.
AddressParts(addr) ==
    LET part == 2 ^ (AddrWidth("ipv4") \div 4)
    IN [i \in 0 .. 3 |-> (addr \div part ^ (3 - i)) % part]

IpText(v, addr, prefix) ==
    <<IF v = "ipv4" THEN AddressParts(addr) ELSE addr,
      IF prefix = <<>> THEN AddrWidth(v) ELSE prefix[1][2]>>

\* A name twice in a record is an error, wherever the record is.
NamesTwice(pairs) == \E i, j \in DOMAIN pairs : i # j /\ pairs[i][1] = pairs[j][1]

RECURSIVE Ambiguous(_)
Ambiguous(v) ==
    CASE v[1] = "set"    -> \E i \in DOMAIN v[2] : Ambiguous(v[2][i])
      [] v[1] = "record" -> NamesTwice(v[2]) \/ \E i \in DOMAIN v[2] : Ambiguous(v[2][i][2])
      [] OTHER -> FALSE

RECURSIVE Restricted(_)
Restricted(v) ==
    CASE v[1] = "set" -> <<"set", {Restricted(v[2][i]) : i \in DOMAIN v[2]}>>
      [] v[1] = "record" ->
            <<"record", Collected([i \in DOMAIN v[2] |-> <<v[2][i][1], Restricted(v[2][i][2])>>])>>
      [] v[1] = "decimal"  -> <<"call", "decimal", DecimalText(v[2])>>
      [] v[1] \in {"ipv4", "ipv6"} -> <<"call", v[1], IpText(v[1], v[2][2], v[3])>>
      [] v[1] = "datetime" -> <<"offset", <<"call", "datetime", 0>>, <<"call", "duration", v[2]>>>>
      [] v[1] = "duration" -> <<"call", "duration", v[2]>>
      [] OTHER -> v

\* What the evaluator of cedar-policy makes of such an expression.
ReadDecimal(text) ==
    LET fraction == FoldLeft(LAMBDA n, digit : 10 * n + digit, 0, text.right)
        size == text.left * 10 ^ DecimalDigits + fraction * 10 ^ (DecimalDigits - Len(text.right))
    IN IF text.neg THEN -size ELSE size

ReadAddress(parts) ==
    LET part == 2 ^ (AddrWidth("ipv4") \div 4)
    IN parts[0] * part ^ 3 + parts[1] * part ^ 2 + parts[2] * part + parts[3]

RECURSIVE Evaluated(_)
Evaluated(e) ==
    CASE e[1] = "set"    -> <<"set", {Evaluated(x) : x \in e[2]}>>
      [] e[1] = "record" -> <<"record", [a \in DOMAIN e[2] |-> Evaluated(e[2][a])]>>
      [] e[1] = "call" /\ e[2] = "decimal" -> <<"decimal", ReadDecimal(e[3])>>
      [] e[1] = "call" /\ e[2] = "ipv4" -> <<"ipv4", ReadAddress(e[3][1]), e[3][2]>>
      [] e[1] = "call"   -> IF e[2] = "ipv6" THEN <<"ipv6", e[3][1], e[3][2]>> ELSE <<e[2], e[3]>>
      [] e[1] = "offset" -> <<"datetime", Evaluated(e[2])[2] + Evaluated(e[3])[2]>>
      [] OTHER -> e

\* What the value is in Lean: a prefix that is absent is that of a single host.
RECURSIVE Denoted(_)
Denoted(v) ==
    CASE v[1] = "set"    -> <<"set", {Denoted(v[2][i]) : i \in DOMAIN v[2]}>>
      [] v[1] = "record" -> <<"record", Collected([i \in DOMAIN v[2] |-> <<v[2][i][1], Denoted(v[2][i][2])>>])>>
      [] v[1] \in {"ipv4", "ipv6"} -> <<v[1], v[2][2], IF v[3] = <<>> THEN AddrWidth(v[1]) ELSE v[3][1][2]>>
      [] OTHER -> v

-----------------------------------------------------------------------------
(* A residual as an expression of the public syntax tree *)

OneArgument ==
    [decimal |-> "decimal", ip |-> "ip", datetime |-> "datetime", duration |-> "duration",
     isIpv4 |-> "isIpv4", isIpv6 |-> "isIpv6", isLoopback |-> "isLoopback",
     isMulticast |-> "isMulticast", toDate |-> "toDate", toTime |-> "toTime",
     toMilliseconds |-> "toMilliseconds", toSeconds |-> "toSeconds",
     toMinutes |-> "toMinutes", toHours |-> "toHours", toDays |-> "toDays"]

TwoArguments ==
    [lessThan |-> "decimalLessThan", lessThanOrEqual |-> "decimalLessEq",
     greaterThan |-> "decimalGreater", greaterThanOrEqual |-> "decimalGreaterEq",
     isInRange |-> "isInRange", offset |-> "offset", durationSince |-> "durationSince"]

\* convert_ext_fun looks at the number of arguments first; any other number is an error.
CallOf(xfn, args) ==
    CASE Len(args) = 1 /\ xfn \in DOMAIN OneArgument  -> <<"op", OneArgument[xfn], args>>
      [] Len(args) = 2 /\ xfn \in DOMAIN TwoArguments -> <<"op", TwoArguments[xfn], args>>
      [] OTHER -> Error

\* A residual is <<"val", value>>, <<"var", name>>, <<"error">>, or <<kind, operator,
\* arguments>>, where the kind is "op" (the operators, and, or, ite, is, like, attributes,
\* tags, sets and records) or "call"; its type is dropped.
RECURSIVE Converted(_)
Converted(r) ==
    IF r[1] \in {"op", "call"}
    THEN LET args == [i \in DOMAIN r[3] |-> Converted(r[3][i])]
         IN CASE \E i \in DOMAIN args : args[i] = Error -> Error
              [] r[1] = "call" -> CallOf(r[2], args)
              [] OTHER -> <<"op", r[2], args>>
    ELSE CASE r[1] = "val"   -> IF Ambiguous(r[2]) THEN Error ELSE <<"val", Restricted(r[2])>>
           [] r[1] = "error" -> <<"residualError">>
           [] OTHER -> r

\* The residual an expression stands for.
RECURSIVE ReadBack(_)
ReadBack(e) ==
    CASE e[1] = "op" ->
            LET args == [i \in DOMAIN e[3] |-> ReadBack(e[3][i])]
                named(f) == {x \in DOMAIN f : f[x] = e[2]}
                function == IF Len(args) = 1 THEN named(OneArgument) ELSE named(TwoArguments)
            IN IF function # {} THEN <<"call", CHOOSE x \in function : TRUE, args>>
               ELSE <<"op", e[2], args>>
      [] e[1] = "val" -> <<"val", Evaluated(e[2])>>
      [] e[1] = "residualError" -> <<"error">>
      [] OTHER -> e

RECURSIVE ResidualDenoted(_)
ResidualDenoted(r) ==
    CASE r[1] \in {"op", "call"} -> <<r[1], r[2], [i \in DOMAIN r[3] |-> ResidualDenoted(r[3][i])]>>
      [] r[1] = "val" -> <<"val", Denoted(r[2])>>
      [] OTHER -> r

-----------------------------------------------------------------------------
(* The journeys *)

ConversionInit ==
    /\ \/ journey = "term"     /\ origin \in SentTerms
       \/ journey = "assert"   /\ origin \in FoundTerms
       \/ journey = "env"      /\ origin \in FoundEnvs
       \/ journey = "residual" /\ origin \in LeftOver
    /\ item = <<IF journey = "term" THEN "rust" ELSE "lean", origin>>

\* Term::from for every assert, and CheckAssertsRequest::new.
SendTerm ==
    /\ journey = "term" /\ place = "rust"
    /\ item' = IF TooWide(form) THEN <<"panicked", form>>
                                ELSE <<"sent", MessageTerm(WireTerm(form))>>
    /\ UNCHANGED <<journey, origin>>

\* A form that took the conversion, or its error.
Arrived(where, converted) == <<IF converted = Error THEN "failed" ELSE where, converted>>

\* Asserts.toCedar, and the same terms in the answer.
AnswerTerm ==
    /\ journey = "term" /\ place = "sent"
    /\ item' = Arrived("lean", LeanTerm(form))
    /\ UNCHANGED <<journey, origin>>

\* Term::try_from on a term in an answer of Lean.
TakeTerm ==
    /\ journey \in {"term", "assert"} /\ place = "lean"
    /\ item' = Arrived("back", RustTerm(form))
    /\ UNCHANGED <<journey, origin>>

\* Context::from_pairs, and the attributes and tags of Entity::new_with_tags.
TakeEnv ==
    /\ journey = "env" /\ place = "lean"
    /\ item' = Arrived("back", IF Ambiguous(form) THEN Error ELSE Restricted(form))
    /\ UNCHANGED <<journey, origin>>

TakeResidual ==
    /\ journey = "residual" /\ place = "lean"
    /\ item' = Arrived("back", Converted(form))
    /\ UNCHANGED <<journey, origin>>

ConversionNext == SendTerm \/ AnswerTerm \/ TakeTerm \/ TakeEnv \/ TakeResidual

-----------------------------------------------------------------------------
(* Properties *)

ConversionTypes ==
    /\ journey \in {"term", "assert", "env", "residual"}
    /\ place \in {"rust", "sent", "lean", "back", "failed", "panicked"}
    /\ place = "panicked" => journey = "term"

\* A residual whose calls have the number of arguments of their functions, and whose values
\* name each attribute once: the only residuals Lean leaves.
RECURSIVE WellFormed(_)
WellFormed(r) ==
    CASE r[1] \in {"op", "call"} ->
            /\ \A i \in DOMAIN r[3] : WellFormed(r[3][i])
            /\ r[1] = "call" => \/ Len(r[3]) = 1 /\ r[2] \in DOMAIN OneArgument
                                \/ Len(r[3]) = 2 /\ r[2] \in DOMAIN TwoArguments
      [] r[1] = "val" -> ~Ambiguous(r[2])
      [] OTHER -> TRUE

\* What is carried between Rust and Lean means the same on both sides. A term that is sent
\* comes back as it was; the conversion panics only on a width of more than eight bits, and
\* no other term that is sent is refused. A term of Lean, once taken, survives being sent
\* and taken again. The values of a counterexample evaluate in Rust to what they are in
\* Lean, a decimal between -1 and 0 and an address of a single host among them, and an
\* environment with unique names is never refused. A well-formed residual is never refused
\* and reads back as the residual it was, each extension function as itself.
TermsKept ==
    /\ journey = "term" => /\ place = "back" => form = origin
                           /\ place = "panicked" => \E w \in Widths(origin) : w > MaxTermWidth
                           /\ place # "failed"
    /\ journey = "assert" /\ place = "back" => RustTerm(LeanTerm(MessageTerm(WireTerm(form)))) = form
    /\ journey = "env" => /\ place = "back" => Evaluated(form) = Denoted(origin)
                          /\ place = "failed" => Ambiguous(origin)
    /\ journey = "residual" => /\ place = "back" => ReadBack(form) = ResidualDenoted(origin)
                               /\ place = "failed" => ~WellFormed(origin)
=============================================================================
