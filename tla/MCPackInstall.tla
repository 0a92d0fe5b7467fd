---------------------------- MODULE MCPackInstall ----------------------------
(* PackInstall with two processes, a library in two versions, the first of     *)
(* them also with another content, an application that accepts either version, *)
(* and a tool that needs the first.                                            *)
EXTENDS PackInstall, TLC

CONSTANTS p1, p2, lib, app, tool

Pack(n, v, c, needs) == [name |-> n, version |-> v, content |-> c, needs |-> needs]

Packs ==
  { Pack(lib, 1, "as published", <<>>),
    Pack(lib, 1, "altered", <<>>),
    Pack(lib, 2, "as published", <<>>),
    Pack(app, 1, "as published", lib :> {1, 2}),
    Pack(tool, 1, "as published", lib :> {1}) }

ProcSymmetry == Permutations({p1, p2})

=============================================================================
