------------------------------- MODULE Schemas -------------------------------
(***************************************************************************)
(* utils/jsonschema.py on flat object schemas: what a payload must look    *)
(* like, and which change of a schema passes without force.                *)
(***************************************************************************)
CONSTANT Fields

Types == {"integer", "number", "boolean", "string", "object"}

\* A property without "type" is "any"; a name not under "properties" is
\* "absent", and may be required all the same.
SchemaSet == [types: [Fields -> Types \union {"any", "absent"}], required: SUBSET Fields]
PayloadSet == [Fields -> Types \union {"absent"}]

\* JSON Schema: an integer is a number.
IsA(value, type) == type \in Types => value = type \/ (value = "integer" /\ type = "number")

\* validate_payload; unknown keys are welcome.
Conforms(payload, schema) ==
  /\ \A f \in schema.required : payload[f] # "absent"
  /\ \A f \in Fields : payload[f] # "absent" => IsA(payload[f], schema.types[f])

Step(old, new) ==
  old = new \/ <<old, new>> \in {<<"integer", "number">>, <<"number", "string">>,
                                 <<"boolean", "string">>}
Loose(old, new) ==
  old = new \/ new = "string" \/ {old, new} = {"integer", "number"}
TypeCompatible(old, new) ==
  \/ old = new
  \/ <<old, new>> \in {<<"integer", "number">>, <<"integer", "string">>,
                       <<"number", "string">>, <<"boolean", "string">>}

KeepsProperties(old, new) ==
  \A f \in Fields \ old.required :
    old.types[f] # "absent" => new.types[f] # "absent"

\* check_schema_compatibility
Compatible(old, new) ==
  /\ old.required \subseteq new.required
  /\ KeepsProperties(old, new)
  /\ \A f \in Fields : {old.types[f], new.types[f]} \subseteq Types
                         => TypeCompatible(old.types[f], new.types[f])
=============================================================================
