---- MODULE MCSinks ----
(* The sinks of the README's example: console, errors only, archive.       *)
EXTENDS Sinks

CONSTANTS e1, e2, e3, e4

EntryLevel == e1 :> 2 @@ e2 :> 4 @@ e3 :> 4 @@ e4 :> 2
EntryShape == e1 :> "nested" @@ e2 :> "flat" @@ e3 :> "text" @@ e4 :> "flat"
NestedLevel == e1 :> 4 @@ e2 :> 4 @@ e3 :> 2 @@ e4 :> 2
Minimums == <<2, 4, 0>>
Syncers == <<TRUE, FALSE, TRUE>>
====
