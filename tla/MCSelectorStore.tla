--------------------------- MODULE MCSelectorStore ---------------------------
(***************************************************************************)
(* Small instances of SelectorStore.                                       *)
(***************************************************************************)
EXTENDS SelectorStore

CONSTANTS t1, t2, a

\* Two extractions by one parser.
OneParser == [t \in {t1, t2} |-> a]

=============================================================================
