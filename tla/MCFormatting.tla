---- MODULE MCFormatting ----
(* The formatters by themselves, with the keys of MCEntries.               *)
EXTENDS Formatting

CoreKeysOf == <<116, 108, 109, 102>>
KeyMapsOf == {<<>>}
====
