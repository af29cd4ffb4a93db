---------------------------- MODULE ZepExceptions ----------------------------
(***************************************************************************)
(* The exceptions a .zep method and the code compiled from it may meet,    *)
(* told apart by their classes.                                            *)
(***************************************************************************)

CONSTANTS
  NoException,
  BaseException,   \* the class every exception is an instance of
  Exceptions       \* the classes of the exceptions a called method may throw

ASSUME ClassesAssumption == NoException \notin Exceptions \cup {BaseException}

InstanceOf(e, class) == class \in {e, BaseException}
=============================================================================
