-------------------------------- MODULE Config --------------------------------
(***************************************************************************)
(* How a program gets its settings: load_config of src/config.cpp reads a  *)
(* file line by line over the defaults, and main reads its options from    *)
(* left to right, the file being one of them.                              *)
(*                                                                         *)
(* A text is abstracted to the number it begins with and whether it is a   *)
(* number as a whole: strtol with its end pointer looks at both, atoi and  *)
(* atof at the first only.  Strings and paths stand for themselves as      *)
(* numbers; values that do not fit 32 bits are left out.                   *)
(***************************************************************************)
EXTENDS Integers, SequencesExt

CONSTANT PortMod  \* number of values of a uint16_t: 2^16

ASSUME ConfigAssumption == PortMod \in Nat /\ PortMod >= 2

Text(n) == [n |-> n, digits |-> TRUE]
Garbled(n) == [n |-> n, digits |-> FALSE]

Texts == [n : Int, digits : BOOLEAN]
Lines == [key : STRING, text : Texts]

Loopback == 0
Defaults == [bind_address |-> Loopback, port |-> 1, tsc_hz |-> 1, sleep_us |-> 1,
             ring_slots |-> 1, ring_elem_size |-> 1, flush_interval_ms |-> 1,
             csv_output |-> 0, ring_name |-> 0]
--------------------------------------------------------------------------------
ValidPort(text) == text.digits /\ text.n \in 1 .. PortMod - 1

\* Whether the line `key=text' is taken over.
Takes(key, text) ==
  CASE key = "port" -> ValidPort(text)
    [] key \in {"ring_slots", "ring_elem_size"} -> text.digits /\ text.n > 0
    [] key = "flush_interval_ms" -> text.digits /\ text.n >= 0
    [] key = "tsc_hz" -> text.n > 0
    [] key = "sleep_us" -> text.n >= 0
    [] key \in {"bind_address", "csv_output", "ring_name"} -> TRUE
    [] OTHER -> FALSE

\* Fault: an invalid value makes the setting fall back to its default.
FaultApplyLine(config, line) ==
  IF line.key \in DOMAIN Defaults
    THEN [config EXCEPT ![line.key] =
            IF Takes(line.key, line.text) THEN line.text.n ELSE Defaults[line.key]]
    ELSE config

\* Comments, broken lines, unknown keys and invalid values are passed over.
ApplyLine(config, line) ==
  IF Takes(line.key, line.text)
    THEN [config EXCEPT ![line.key] = line.text.n]
    ELSE config

\* A file that cannot be read is one whose path is not allowed, or fopen fails.
LoadConfig(file, config) == FoldLeft(ApplyLine, config, file.lines)
--------------------------------------------------------------------------------
(* What load_config is meant to do, line by line put aside *)

\* The last valid line of a key decides, whatever stands before or after it.
LastValid(file, key, default) ==
  LET Valid(line) == line.key = key /\ Takes(key, line.text)
      n == SelectLastInSeq(file.lines, Valid)
  IN  IF n = 0 THEN default ELSE file.lines[n].text.n
================================================================================
