------------------------------- MODULE MCOrmLoads -------------------------------
(***************************************************************************)
(* OrmLoads with two pets of a user, one of them with a patron, and a row  *)
(* of another app's model that is called Pet too.                          *)
(***************************************************************************)
EXTENDS OrmLoads, TLC

CONSTANTS Pet, User, Other, p1, p2, u1, o1, user, rival, friends, pets, patron

MCModelOf == (p1 :> Pet) @@ (p2 :> Pet) @@ (u1 :> User) @@ (o1 :> Other)
MCKeyOf == (p1 :> "Pet:1") @@ (p2 :> "Pet:2") @@ (u1 :> "User:1") @@ (o1 :> "Pet:1")
MCOwner == (user :> Pet) @@ (rival :> Pet) @@ (friends :> Pet) @@ (pets :> User) @@ (patron :> Pet)
MCKind == (user :> "forward") @@ (rival :> "nullable") @@ (friends :> "m2m")
              @@ (pets :> "backref") @@ (patron :> "reverse")

Leads(rows, value) == [row \in Rows |-> IF row \in rows THEN value ELSE {}]
MCTarget == (user :> Leads({p1, p2}, {u1})) @@ (rival :> Leads({p2}, {p1}))
                @@ (friends :> Leads({p1}, {p2})) @@ (pets :> Leads({u1}, {p1, p2}))
                @@ (patron :> Leads({p1}, {u1}))

MCQualified == (Pet :> "zoo.Pet") @@ (User :> "zoo.User") @@ (Other :> "shop.Pet")
MCBare == (Pet :> "Pet") @@ (User :> "User") @@ (Other :> "Pet")

\* No limit, one row, the second row, the second and third row.
MCWindows == {Unlimited, [limit |-> 1, offset |-> 0], [limit |-> 1, offset |-> 1], [limit |-> 2, offset |-> 1]}

\* An empty rule, and one for the lazy loads of the zoo's pets.
MCWhitelist ==
    {[label |-> None, models |-> None, rels |-> None],
     [label |-> "n_plus_one", models |-> {"zoo.Pet"}, rels |-> None]}

================================================================================
