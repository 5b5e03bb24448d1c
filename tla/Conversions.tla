----------------------------- MODULE Conversions -----------------------------
(***************************************************************************)
(* Resolver/ResolverUtil.cpp and ResolveCall.cpp: which type turns into    *)
(* which, the type of an operation, and the choice among overloads.  A     *)
(* type is the identity of its symbol.                                     *)
(***************************************************************************)
EXTENDS Linker, Overloads

Bits == [i8 |-> 8, i16 |-> 16, i32 |-> 32, i64 |-> 64, i128 |-> 128,
         u8 |-> 8, u16 |-> 16, u32 |-> 32, u64 |-> 64, u128 |-> 128,
         f16 |-> 16, f32 |-> 32, f64 |-> 64, f128 |-> 128,
         c8 |-> 8, c16 |-> 16, c32 |-> 32, s8 |-> 8, s16 |-> 16, s32 |-> 32]
Precision == [f16 |-> 11, f32 |-> 24, f64 |-> 53, f128 |-> 113]

Signed   == {"i8", "i16", "i32", "i64", "i128"}
Unsigned == {"u8", "u16", "u32", "u64", "u128"}

Among(id, names) == id # Null /\ id[1] = "builtin" /\ id[2] \in names
IsInt(id)     == Among(id, Signed \cup Unsigned)
IsFloat(id)   == Among(id, DOMAIN Precision)
IsString(id)  == Among(id, {"s8", "s16", "s32"})
IsChar(id)    == Among(id, {"c8", "c16", "c32"})
IsBool(id)    == Among(id, {"bool"})
IsNumeric(id) == IsInt(id) \/ IsFloat(id)
IsSigned(id)  == IsFloat(id) \/ Among(id, Signed)
IsPrimitive(id) == Among(id, Primitive)

\* The types of world and arena, and of _.
StorageType == Builtin("@built")
DefaultType == Builtin("@default")

TypeKind(id, t) == IF id \in DOMAIN t.types THEN t.types[id].kind ELSE "OTHER"
IsHandle(id) == id # Null /\ id[1] = "Handle"

RECURSIVE Extends(_, _, _)
Extends(id, ancestor, t) ==
  \/ id = ancestor
  \/ id \in DOMAIN t.types /\ t.types[id].base # Null /\ Extends(t.types[id].base, ancestor, t)

\* Only a signed type turns into none that is unsigned.
PrimitiveConverts(f, to) ==
  CASE f \in Signed \cup Unsigned /\ to \in Signed \cup Unsigned ->
         (f \in Signed => to \in Signed) /\ Bits[f] <= Bits[to]
    [] f \in DOMAIN Precision /\ to \in DOMAIN Precision -> Bits[f] <= Bits[to]
    [] f \in Signed \cup Unsigned /\ to \in DOMAIN Precision ->
         Bits[f] = Bits[to] \/ Bits[f] <= Precision[to]
    [] OTHER -> FALSE

canImplicitlyConvert(from, to, t) ==
  \/ Extends(from, to, t)
  \/ IsPrimitive(from) /\ IsPrimitive(to) /\ PrimitiveConverts(from[2], to[2])

isAssignable(from, to, t) == canImplicitlyConvert(from, to, t)

-----------------------------------------------------------------------------
(* Literals.  The programs' numbers, with the bits that each takes; their   *)
(* characters and strings are ASCII, their fractions need an f32.           *)

ActiveBits == ("0" :> 0) @@ ("1" :> 1) @@ ("2" :> 2) @@ ("200" :> 8)
                @@ ("32768" :> 16) @@ ("22222222" :> 25) @@ ("2222222222" :> 32)

resolveLitInt(value) ==
  CASE ActiveBits[value] <= 31 -> Builtin("i32")
    [] ActiveBits[value] \in 32..63 -> Builtin("i64")
    [] OTHER -> Builtin("i128")

LiteralType(n) ==
  CASE n.type = "LIT_INT"       -> resolveLitInt(n.value)
    [] n.type = "LIT_FLOAT"     -> Builtin("f32")
    [] n.type = "LIT_CHARACTER" -> Builtin("c8")
    [] n.type = "LIT_STRING"    -> Builtin("s8")
    [] n.type = "LIT_BOOL"      -> Builtin("bool")

IntFits(value, type) ==
  \/ type \in Signed /\ ActiveBits[value] + 1 <= Bits[type]
  \/ type \in Unsigned /\ ActiveBits[value] <= Bits[type]
  \/ type \in DOMAIN Precision /\ ActiveBits[value] + 1 <= Precision[type]

canImplicitlyLiteralConvert(n, to) ==
  \/ LiteralType(n) = to
  \/ n.type = "LIT_INT" /\ (IsInt(to) \/ IsFloat(to)) /\ IntFits(n.value, to[2])
  \/ n.type = "LIT_FLOAT" /\ IsFloat(to) /\ to # Builtin("f16")
  \/ n.type = "LIT_CHARACTER" /\ IsChar(to)
  \/ n.type = "LIT_STRING" /\ IsString(to)

-----------------------------------------------------------------------------
(* Operators *)

isCmpable(l, r, t) ==
  /\ "CLASS" \notin {TypeKind(l, t), TypeKind(r, t)}
  /\ (IsNumeric(l) /\ IsNumeric(r)) \/ l = r

isBinaryOperable(op, l, r, t) ==
  CASE op \in {"&", "|", "^", "<<", ">>"} -> IsInt(l) /\ IsInt(r)
    [] op = "+" -> (IsString(l) /\ IsString(r)) \/ (IsNumeric(l) /\ IsNumeric(r))
    [] op \in {"<", "<=", ">", ">=", "-", "*", "/", "%", "**"} -> IsNumeric(l) /\ IsNumeric(r)
    [] op \in {"&&", "||"} -> IsBool(l) /\ IsBool(r)
    [] op \in {"==", "!="} -> isCmpable(l, r, t)

Wider(l, r) == IF Bits[l[2]] >= Bits[r[2]] THEN <<l, r>> ELSE <<r, l>>

getPromotionCandidates(l, r) ==
  CASE IsFloat(l) \/ IsFloat(r) -> SelectSeq(<<l, r>>, IsFloat)
    [] (IsInt(l) /\ IsInt(r)) \/ (IsString(l) /\ IsString(r)) -> Wider(l, r)
    [] OTHER -> <<>>

\* Mutant: the wider type, whether or not the other one turns into it.
PromoteToWider(l, r, t) ==
  IF l = r THEN l
  ELSE IF getPromotionCandidates(l, r) = <<>> THEN Null ELSE getPromotionCandidates(l, r)[1]

\* The first candidate that both operands turn into.
binaryCasting(l, r, t) ==
  IF l = r THEN l
  ELSE IF ~IsPrimitive(l) \/ ~IsPrimitive(r) THEN Null
  ELSE LET common == SelectSeq(getPromotionCandidates(l, r),
                               LAMBDA c : canImplicitlyConvert(l, c, t) /\ canImplicitlyConvert(r, c, t))
       IN IF common = <<>> THEN Null ELSE common[1]

binaryResult(op, operands) ==
  IF op \in {"<", "<=", ">", ">=", "==", "!=", "&&", "||"} THEN Builtin("bool") ELSE operands

-----------------------------------------------------------------------------
(* Overloads.  An argument is a record of its node and its type. *)

Invalid == 999

\* The rank of an argument for a parameter: 0 is exact, 1 is converted.
matchArgument(arg, param, t) ==
  LET to == t.values[param].type
  IN CASE arg.node.kind = "DefaultValueExpr" -> IF t.values[param].default THEN 0 ELSE Invalid
       [] arg.node.kind = "LiteralExpr" ->
            IF arg.type = to THEN 0 ELSE IF canImplicitlyLiteralConvert(arg.node, to) THEN 1 ELSE Invalid
       [] arg.node.kind \notin {"DefaultValueExpr", "LiteralExpr"} ->
            IF arg.type = to THEN 0 ELSE IF canImplicitlyConvert(arg.type, to, t) THEN 1 ELSE Invalid

Ranks(m, args, t) == [i \in DOMAIN args |-> matchArgument(args[i], t.methods[m].params[i], t)]

Viable(bucket, args, t) ==
  {m \in Range(bucket) : /\ Len(t.methods[m].params) = Len(args)
                         /\ Invalid \notin Range(Ranks(m, args, t))}

\* Mutant: the first that takes the arguments.
FirstViable(bucket, args, t) ==
  LET viable == SelectSeq(bucket, LAMBDA m : m \in Viable(bucket, args, t))
  IN IF viable = <<>> THEN {} ELSE {viable[1]}

Best(bucket, args, t) == Unbeaten([m \in Viable(bucket, args, t) |-> Ranks(m, args, t)])
=============================================================================
