----------------------------- MODULE MCProgram -----------------------------
(* The worker of example/main.go.                                          *)
EXTENDS Program

MCRegisterables == <<"formatName", "greet", "formatAndGreet", "justGreet">>
MCReaders == {"try", "receive"}

(* Two fields, to tell one position from the other.                        *)
MCArgument == [id \in Ids |-> IF id = "" THEN <<"Viktor", "dear">>
                              ELSE <<"SignalWithStart", "hello">>]
=============================================================================
