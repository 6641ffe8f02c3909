--------------------------- MODULE MCResultEnvelope ---------------------------
(* The instance of ResultEnvelope that TLC checks, with the sizes that the *)
(* fields of real answers have.                                            *)
EXTENDS ResultEnvelope

\* An answer that the engine fits again, or not; its packs cite either.
Engine(inner, outer, compact, levels) ==
  [inner |-> inner, outer |-> outer, compact |-> compact, gens |-> levels, cited |-> TRUE]

\* One that the vault itself packs.
Vault(inner, levels) == [inner |-> inner, outer |-> 0, compact |-> 0, gens |-> levels, cited |-> FALSE]

\* Without a graph; graph-only and graph-first with evidence enough, which the
\* vault's retrieval answers; the modes and the reasons to fall back on another.
MCMetas ==
  {Vault(127, <<4>>), Engine(127, 127, 81, <<4>>), Engine(127, 128, 82, <<4>>)}
    \union {Engine(m[1], m[2], m[3], g) :
              m \in {<<135, 0, 85>>, <<137, 0, 86>>, <<158, 152, 101>>, <<158, 157, 106>>, <<142, 157, 106>>},
              g \in {<<187, 114, 34>>, <<615, 178, 34>>}}

Item(head, body, wide) == [head |-> head, tags |-> 62, signals |-> 48, body |-> body, wide |-> wide]

MCResponses ==
  {<<Item(339, 30, FALSE)>>, <<Item(339, 30, TRUE)>>,
   <<Item(339, 90, FALSE), Item(339, 20, TRUE), Item(339, 5, FALSE)>>,
   <<Item(360, 0, FALSE), Item(339, 60, TRUE)>>}

MCPayloads ==
  {[project |-> p, task |-> t, dated |-> 66] : p \in {18, 27}, t \in {5, 40, 600}}

MCBudgets == {1} \union 60 .. 75 \union 95 .. 155 \union 245 .. 258
=============================================================================
