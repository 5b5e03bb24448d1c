------------------------------- MODULE Visitor -------------------------------
(***************************************************************************)
(* ASTVisitor: a pass over the syntax tree, which takes a table of symbols *)
(* to another.  Visits gives, for every kind of node that the pass treats, *)
(* its steps in their order: the name of a part of the node, which is      *)
(* visited if it is there, or the name of an effect, in capitals.  A step  *)
(* "selector" visits the object of the node's value.                       *)
(*                                                                         *)
(* A node is known by its path from the root of the tree, as in C++ by its *)
(* address: <<"decls", 2, "methods", 1, "body">>.                          *)
(***************************************************************************)
EXTENDS Naturals, Sequences, SequencesExt

CONSTANTS Visits,            \* kind of node -> sequence of steps
          Effect(_, _, _, _) \* the table after an effect at a node

Lists == {"args", "cases", "statements", "fields", "methods", "inits", "innerDecl", "params",
          "variants", "traitSigs", "values"}

\* After an error, which is an exception, nothing more is visited.
RECURSIVE Visit(_, _, _)
Visit(n, p, table) ==
  LET Child(c, at, t) == IF t.error = "none" THEN Visit(c, at, t) ELSE t
      Step(t, step) ==
        CASE t.error # "none"      -> t
          [] step = "selector"     -> IF "object" \in DOMAIN n.value
                                      THEN Child(n.value.object, p \o <<"value", "object">>, t) ELSE t
          [] step \notin DOMAIN n  -> Effect(step, n, p, t)
          [] step \in Lists        ->
               FoldLeftDomain(LAMBDA s, i : Child(n[step][i], p \o <<step, i>>, s), t, n[step])
          [] OTHER                 -> Child(n[step], Append(p, step), t)
  IN IF n.kind \in DOMAIN Visits THEN FoldLeft(Step, table, Visits[n.kind]) ELSE table
=============================================================================
