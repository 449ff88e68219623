---- MODULE MCFields ----
EXTENDS Fields

CONSTANTS g1, g2, c1, c2, n1, n2, x1

(* c1 has a map in it, which has another; the keys of c2 are reserved, or  *)
(* such as errors and reserved keys make.                                  *)
MapsOf ==
  c1 :> <<Key("user") :> Plain("v1") @@ Key("auth") :> Map(n1)>>
  @@ c2 :> <<Key("level") :> Plain("v3") @@ Key("err") :> Wrapping("e1")
               @@ <<"err", "_type">> :> Plain("v4"),
             Key("level") :> Failure("e2") @@ <<"fields.", "level">> :> Plain("v6")
               @@ Key("user") :> Valuer(12, Plain("v7"))>>
  @@ n1 :> <<Key("secret") :> Plain("v8") @@ Key("deep") :> Map(n2)>>
  @@ n2 :> <<Key("secret") :> Plain("v9")>>
TypedCalls == {<< <<Key("user"), Plain("v4")>>, <<Key("secret"), Plain("v5")>>,
                  <<Key("user"), Valuer(1, Failure("e3"))>> >>}
ReturnsOf == x1 :> c2
ListedKeys == {Key("secret")}
OptionsOn == {"caller", "stackTrace"}
Symmetry == Permutations(Goroutines)
====
