------------------------------- MODULE Conversions -------------------------------
(***************************************************************************)
(* gepa_rpc/adapter.py and servicer.py: what becomes of examples and side  *)
(* infos between the client's messages and the Python values of an Omni    *)
(* run's engine.  A protobuf Example is a record of its id and its fields; *)
(* a Python value is named by its type and what it is of; a text on the    *)
(* wire by its form and by what it says.                                   *)
(***************************************************************************)
EXTENDS Naturals

PyValue(type, of) == [type |-> type, of |-> of]
WireText(form, says) == [form |-> form, says |-> says]

-------------------------------------------------------------------------------
(* Examples *)

\* An entry of the dataset or the valset, as the runner makes it of an Example.
DatasetEntry(msg) == PyValue("dict", [id |-> msg.id, fields |-> msg.fields])

\* A faulty variant, like each operator below whose comment calls it one: the
\* code does not do this, and the properties must notice if it did.  A dict's
\* items become the fields, whatever they are.
FlattenExample(ex) ==
  [id |-> "", fields |-> IF ex.type = "dict" THEN ex.of ELSE [value |-> ex.of]]

\* A dict needs the entry "fields" only, an object both attributes.
HasFields(ex) ==
  \/ ex.type = "dict" /\ "fields" \in DOMAIN ex.of
  \/ ex.type = "object" /\ {"id", "fields"} \subseteq DOMAIN ex.of

\* What has fields; other dicts; and the text of anything else, the None of a
\* run without a dataset included.
ExampleToProto(ex) ==
  CASE HasFields(ex) ->
         [id |-> IF "id" \in DOMAIN ex.of THEN ex.of.id ELSE "", fields |-> ex.of.fields]
    [] ex.type = "dict" /\ ~HasFields(ex) -> [id |-> "", fields |-> ex.of]
    [] OTHER -> [id |-> "", fields |-> [value |-> ex.of]]

-------------------------------------------------------------------------------
(* Side infos *)

EmptyText == WireText("empty", <<>>)
EmptyDict == PyValue("dict", <<>>)
Raw(text) == PyValue("raw", text)     \* {"raw": text}

\* An answer's side info: none, JSON, or text that is not JSON and is wrapped.
Loads(text) ==
  CASE text.form = "empty" -> EmptyDict
    [] text.form = "json" -> text.says
    [] text.form = "plain" -> Raw(text.says)

\* A faulty variant: json.dumps is not tried.
DumpsText(value) == WireText("json", Raw(value.of))

\* json.dumps, or the text of a value that it has a TypeError for (an Image).
Dumps(value) ==
  WireText("json", IF value.type = "image" THEN Raw(value.of) ELSE value)

\* The state's best evaluations; one stands for the list.
OptStateToProto(state) == [score |-> state.score, side_info |-> Dumps(state.side_info)]

===============================================================================
