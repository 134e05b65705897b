-------------------------------- MODULE Wire --------------------------------
(***************************************************************************)
(* Arguments on the wire.  A declaration made with NewWorkflow or          *)
(* NewActivity sends its argument as one struct, a positional one sends    *)
(* the struct's fields one by one (workflow.go, activity.go).  The SDK's   *)
(* encoding of a single value is external.                                 *)
(***************************************************************************)
EXTENDS Naturals, Sequences

CONSTANT Undecodable    \* outcome of decoding

Forms == {"struct", "positional"}

(* A struct of one field or more, as the sequence of its fields.           *)
IsStruct(a) ==
    /\ a = [j \in 1..Len(a) |-> a[j]]
    /\ Len(a) \in Nat \ {0}
    /\ a # Undecodable

(* The lists of payloads that calls send: one with the whole struct, or    *)
(* one for each field.                                                     *)
Whole(argument) == <<[whole |-> TRUE, fields |-> argument]>>

FieldByField(argument) ==
    [j \in DOMAIN argument |->
        [whole |-> FALSE, fields |-> <<argument[j]>>]]

(* Variant: the first field is taken for the context and left out.         *)
EncodeFromSecond(f, argument) ==
    IF f = "struct" THEN Whole(argument)
    ELSE FieldByField([j \in DOMAIN argument |->
                          argument[IF j < Len(argument) THEN j + 1 ELSE j]])

(* Execute, ExecuteChild and Activity.Execute.                             *)
Encode(f, argument) ==
    IF f = "struct" THEN Whole(argument) ELSE FieldByField(argument)

(* What the registered function gets: the SDK decodes payload by payload   *)
(* into its parameters, and the wrapper of a positional declaration sets   *)
(* the fields of the struct in order.                                      *)
Decode(f, payloads, n) ==
    IF f = "struct"
    THEN IF payloads[1].whole THEN payloads[1].fields ELSE Undecodable
    ELSE IF \A j \in 1..n : j \in DOMAIN payloads /\ ~payloads[j].whole
         THEN [j \in 1..n |-> payloads[j].fields[1]] ELSE Undecodable
=============================================================================
