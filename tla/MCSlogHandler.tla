---- MODULE MCSlogHandler ----
EXTENDS SlogHandler

AttrsOf == {[key |-> <<"k">>, value |-> "v1"], [key |-> <<"k">>, value |-> "v2"],
            [key |-> <<"slog_source">>, value |-> "v3"]}
FieldsOf == [k \in {<<"k">>, <<"service">>} |-> "v0"]
====
