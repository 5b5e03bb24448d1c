------------------------------ MODULE MIRValue ------------------------------
(***************************************************************************)
(* Types, values and statements of the MIR as records, for the modules     *)
(* that say what becomes of the values (Ownership, ValueStore).            *)
(* A place is a root, "self" or a variable, with a path of field indices   *)
(* and array indices below it.                                             *)
(***************************************************************************)
EXTENDS Naturals, Sequences

Primitive == [kind |-> "PRIMITIVE"]
String    == [kind |-> "STRING"]
\* init: the statements of the default initialisation.
Struct(fields, init)  == [kind |-> "STRUCT", fields |-> fields, init |-> init]
Array(base, size)     == [kind |-> "ARRAY", base |-> base, size |-> size]
Unit                  == [kind |-> "UNIT"]
Enum(payloads)        == [kind |-> "ENUM", payloads |-> payloads]

Place(root, path) == [root |-> root, path |-> path]

StringLit(text)      == [op |-> "string", text |-> text, type |-> String]
NumberLit(n)         == [op |-> "number", number |-> n, type |-> Primitive]
LoadOf(place, type)  == [op |-> "load", place |-> place, type |-> type]
Payload(place, type) == [op |-> "payload", place |-> place, type |-> type]
Add(lhs, rhs)        == [op |-> "add", lhs |-> lhs, rhs |-> rhs, type |-> String]
Equal(lhs, rhs)      == [op |-> "equal", lhs |-> lhs, rhs |-> rhs, type |-> Primitive]
And(lhs, rhs)        == [op |-> "and", lhs |-> lhs, rhs |-> rhs, type |-> Primitive]
CallOf(method, args) ==
  [op |-> "call", method |-> method, args |-> args, type |-> method.result.type]
RuntimeCall(args)    == [op |-> "runtime", args |-> args, type |-> Primitive]
StructInit(type, init, args) ==
  [op |-> "struct", init |-> init, args |-> args, type |-> type]
Variant(type, tag, payload) ==
  [op |-> "variant", tag |-> tag, payload |-> payload, type |-> type]
NoPayload == [op |-> "none", type |-> Unit]

\* The result is a value that the method returns when its statements, and the
\* cleanup among them, are done.
Method(params, types, body, result) ==
  [params |-> params, types |-> types, body |-> body, result |-> result]

LocalDecl(name, type, init) ==
  [stmt |-> "decl", name |-> name, type |-> type, init |-> init]
Uninitialised == [op |-> "none", type |-> Unit]
Assignment(place, value) == [stmt |-> "assign", place |-> place, value |-> value]
ExprStmt(value)          == [stmt |-> "expr", value |-> value]
\* locals: the names with their types, in the order of their declaration.
CleanupOf(locals)        == [stmt |-> "cleanup", locals |-> locals]
StringSwitch(value, cases, arms) ==
  [stmt |-> "switch", value |-> value, cases |-> cases, arms |-> arms]

NeedsDestroy(type) ==
  \/ type.kind \in {"STRING", "STRUCT", "ENUM"}
  \/ type.kind = "ARRAY" /\ type.base.kind \in {"STRING", "STRUCT", "ENUM"}
=============================================================================
