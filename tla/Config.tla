------------------------------- MODULE Config -------------------------------
(***************************************************************************)
(* config::init, which reads config.yaml into the settings of a server.    *)
(* The fields are read in one order, and the first that does not convert   *)
(* throws: what was read before stays, and the rest keeps its default. The *)
(* constructor ignores that init failed.                                   *)
(*                                                                         *)
(* A file is a record: the endpoints read before anything throws, a        *)
(* partial function of the numbers it has, and the position of the first   *)
(* field that throws (1: no such file, no YAML, or an element of           *)
(* "interface"). Texts that are only stored or printed are left out.       *)
(***************************************************************************)
EXTENDS Integers, Sequences

CONSTANTS
  Nprocs,    \* ::get_nprocs()
  Ints       \* the numbers that may stand in a file

ASSUME ConfigAssumption == Nprocs \in Nat \ {0} /\ Ints \subseteq Int

MIN_CONNECTION == 1
MIN_CONNECTION_TIMEOUT == 1000
MAX_LOG_LEVEL == 6

\* Which field is read when; the format comes after the level.
Position == [procnum |-> 2, level |-> 3, max_connection |-> 5, connection_timeout |-> 6]
NothingThrows == 7

Numbers == UNION {[S -> Ints] : S \in SUBSET DOMAIN Position}

Larger(a, b) == IF a > b THEN a ELSE b
Smaller(a, b) == IF a < b THEN a ELSE b

Given(file, field) == field \in DOMAIN file.numbers /\ Position[field] < file.throws

\* A fault: the clamp keeps the smaller value.
AtLeast_Swapped(min, file, field, default) ==
  IF Given(file, field) THEN Smaller(min, file.numbers[field]) ELSE default

AtLeast(min, file, field, default) ==
  IF Given(file, field) THEN Larger(min, file.numbers[field]) ELSE default

\* Clamped to 0 from below, and from above to the configured level itself.
LogLevel(file) ==
  IF Given(file, "level") THEN Smaller(Larger(0, file.numbers["level"]), file.numbers["level"])
                          ELSE 3

Settings(file) ==
  [m_proc_num               |-> AtLeast(Nprocs, file, "procnum", Nprocs),
   m_log_level              |-> LogLevel(file),
   m_max_connecction        |-> AtLeast(MIN_CONNECTION, file, "max_connection", 100),
   m_connection_timeout     |-> AtLeast(MIN_CONNECTION_TIMEOUT, file, "connection_timeout", 60000),
   m_max_request_per_second |-> 1000]
=============================================================================
