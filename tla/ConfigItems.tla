------------------------------ MODULE ConfigItems ------------------------------
(***************************************************************************)
(* The collection items of /klaayguard/config: which of them this host     *)
(* resolves, and how.  A query is the sequence of its statements, and a    *)
(* statement is a verb with the words that stand in it; a word never       *)
(* holds a separator.  An Option is a set with at most one element.        *)
(***************************************************************************)
EXTENDS Sequences, Functions

\* An item as it is parsed: its query, when it has one, is made of statements.
IsItem(item) ==
    /\ \A a, b \in item.sql : a = b
    /\ \A q \in item.sql : q \in Seq(Range(q))

Writing == {"insert", "update", "delete", "replace"}

\* Bug: DML behind a CTE is let through.
IsReadOnlyQueryByPrefix(sql) == Len(sql) = 1 /\ sql[1].verb \in {"select", "with"}

IsReadOnlyQuery(sql) ==
    /\ Len(sql) = 1 /\ sql[1].verb \in {"select", "with"}
    /\ sql[1].words \cap Writing = {}

\* Ubuntu and CentOS are Linux, and darwin is macOS.
Named(name) ==
    CASE name \in {"", "all", "any", "null"}    -> {"linux", "macos", "windows"}
      [] name = "posix"                         -> {"linux", "macos"}
      [] name \in {"linux", "ubuntu", "centos"} -> {"linux"}
      [] name \in {"darwin", "macos"}           -> {"macos"}
      [] name = "windows"                       -> {"windows"}
      [] OTHER                                  -> {}

\* A tag is the list of its names; no tag is the empty list.
PlatformMatches(tag, os) == tag = <<>> \/ \E n \in DOMAIN tag : os \in Named(tag[n])

\* `SELECT * FROM <id>`
DefaultQuery == <<[verb |-> "select", words |-> {}]>>

\* What the host makes of one item, {} when it is skipped.
ParseConfigItem(item, os) ==
    LET sql == IF item.sql = {} THEN DefaultQuery ELSE CHOOSE q \in item.sql : TRUE IN
    IF ~PlatformMatches(item.platform, os) THEN {}
    ELSE IF item.type = "builtin" THEN {[kind |-> "builtin", check |-> c] : c \in item.check}
    ELSE IF IsReadOnlyQuery(sql) THEN {[kind |-> "osquery", sql |-> sql]} ELSE {}

-----------------------------------------------------------------------------

\* SQLite runs every statement that the text holds: one that does not begin a
\* query, and DML under a CTE, changes something.
Writes(sql) ==
    \E n \in DOMAIN sql :
        \/ sql[n].verb \notin {"select", "with"}
        \/ sql[n].verb = "with" /\ sql[n].words \cap Writing # {}

=============================================================================
