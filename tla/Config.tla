-------------------------------- MODULE Config --------------------------------
(***************************************************************************)
(* The configuration (src/src/config): a YAML or a JSON document is turned  *)
(* into a dictionary of booleans, ints, doubles and strings.                *)
(*                                                                         *)
(* The parsers (yaml-cpp, nlohmann/json) and the dictionary (cppdict) are   *)
(* external.  A parsed document is a function from paths, the sequences of  *)
(* keys (of an array: "0", "1" and so on), to nodes: what the author wrote  *)
(* there, its kind as JSON marks it and its text.  YAML has the text alone: *)
(* which kind it is the loader finds out from the text.                     *)
(***************************************************************************)
EXTENDS Integers, Sequences

CONSTANTS
  Number,     (* of each text made of an optional sign and digits: its value *)
  Decimals,   (* texts of other numbers                                      *)
  IntMax      (* INT_MAX                                                     *)

ASSUME ConfigAssumption ==
  /\ \A text \in DOMAIN Number : Number[text] \in Int
  /\ IntMax \in Nat
  /\ (DOMAIN Number) \cap Decimals = {}
  /\ ((DOMAIN Number) \cup Decimals) \cap {"", "bool", "true"} = {}

Scalars == {"string", "boolean", "integer", "float"}

(* What a parser gives: the kind of a scalar restricts its text.            *)
NodeOK(node) ==
  /\ node.kind \in Scalars \cup {"object", "array", "null"}
  /\ node.kind = "boolean" => node.text \in {"true", "false"}
  /\ node.kind = "integer" => node.text \in DOMAIN Number
  /\ node.kind = "float" => node.text \in Decimals

(* The nodes that lead to a path, the root first. *)
Above(path) == {SubSeq(path, 1, n) : n \in 0 .. Len(path) - 1}

DocumentOK(document) ==
  /\ <<>> \in DOMAIN document
  /\ \A path \in DOMAIN document :
       /\ NodeOK(document[path])
       /\ \A above \in Above(path) :
            above \in DOMAIN document /\ document[above].kind \in {"object", "array"}

(* An empty file. *)
EmptyDocument == [path \in {<<>>} |-> [kind |-> "null", text |-> ""]]

(* What the dictionary holds at a path. *)
Value(type, value) == [type |-> type, value |-> value]
NoValue == Value("none", "")
IsInt(n) == n \in -IntMax - 1 .. IntMax

(* The loader leaves with an exception: there is no dictionary. *)
Throws == Value("throws", "")
NoDict == [path \in {} |-> NoValue]

Loaded(dict) == IF \E path \in DOMAIN dict : dict[path] = Throws THEN NoDict ELSE dict

(* Config { }; every other dictionary has a root, too. *)
EmptyDict == [path \in {<<>>} |-> NoValue]

-----------------------------------------------------------------------------
(* yaml_io.hpp *)

(* Regular expressions: the int one is a special case of the float one.     *)
bool_regex == {"", "bool", "true"}
int_regex == DOMAIN Number
float_regex == int_regex \cup Decimals

(* Fault: the more general expression comes first. *)
str_type_float_first(data) ==
  CASE data \in bool_regex -> "Bool"
    [] data \in float_regex -> "Float"
    [] OTHER -> "String"

str_type(data) ==
  CASE data \in bool_regex -> "Bool"
    [] data \in int_regex -> "Int"
    [] data \in float_regex \ int_regex -> "Float"
    [] OTHER -> "String"

(* node.as<bool> does not know the words "" and "bool", node.as<int> throws *)
(* when the number does not fit.                                            *)
_handle_scalar(data) ==
  CASE str_type(data) = "String" -> Value("string", data)
    [] str_type(data) = "Float" -> Value("double", data)
    [] str_type(data) = "Bool" -> IF data = "true" THEN Value("bool", TRUE) ELSE Throws
    [] str_type(data) = "Int" -> IF IsInt(Number[data]) THEN Value("int", Number[data]) ELSE Throws

(* What is only below maps. *)
MapNodes(document) ==
  {path \in DOMAIN document : \A above \in Above(path) : document[above].kind = "object"}

(* A map is left to its own paths; null and sequences give an empty entry,  *)
(* and a scalar may be the whole document.                                  *)
from_yaml(document) ==
  Loaded([path \in MapNodes(document) |->
           IF document[path].kind \in Scalars THEN _handle_scalar(document[path].text)
                                              ELSE NoValue])

-----------------------------------------------------------------------------
(* json_io.hpp *)

(* int { node } takes the low bits of a larger number. *)
ToInt(n) == ((n + IntMax + 1) % (2 * (IntMax + 1))) - IntMax - 1

_load_config(node) ==
  CASE node.kind = "string" -> Value("string", node.text)
    [] node.kind = "boolean" -> Value("bool", node.text = "true")
    [] node.kind = "integer" -> Value("int", ToInt(Number[node.text]))
    [] node.kind = "float" -> Value("double", node.text)
    [] OTHER -> NoValue

(* The root is iterated over whatever it is: an array is not told apart     *)
(* from an object, and a scalar is its own only item, with an empty key.    *)
ItemNodes(document) ==
  {path \in DOMAIN document :
     \A above \in Above(path) : above # <<>> => document[above].kind = "object"}

from_json(document) ==
  IF document[<<>>].kind \in Scalars
  THEN [path \in {<<>>, <<"">>} |-> IF path = <<>> THEN NoValue ELSE _load_config(document[<<>>])]
  ELSE [path \in ItemNodes(document) |-> _load_config(document[path])]

-----------------------------------------------------------------------------
(* Reading the dictionary *)

(* to<int>(default): cppdict gives the default for what is not there.       *)
ToOr(dict, path, type, default) ==
  IF path \in DOMAIN dict /\ dict[path].type = type THEN dict[path].value ELSE default

(* cfg[key]: the part of the dictionary below a key. *)
Below(dict, key) ==
  [path \in {Tail(p) : p \in {q \in DOMAIN dict : q # <<>> /\ q[1] = key}} |-> dict[<<key>> \o path]]

KeysOf(dict) == {path[1] : path \in DOMAIN dict \ {<<>>}}

-----------------------------------------------------------------------------
(* The kind that the author meant is the one the text shows. *)
Plain(node) ==
  CASE node.kind = "string" -> node.text \notin bool_regex \cup float_regex
    [] node.kind = "boolean" -> node.text = "true"
    [] node.kind = "integer" -> IsInt(Number[node.text])
    [] OTHER -> TRUE

PlainDocument(document) == \A path \in DOMAIN document : Plain(document[path])

(* A document says the same in YAML and in JSON, as long as it is a map and *)
(* its texts are plain; then no reader throws, and no number changes.       *)
SameInBoth(document) ==
  document[<<>>].kind = "object" /\ PlainDocument(document)
    => from_yaml(document) = from_json(document)
=============================================================================
