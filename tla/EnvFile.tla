------------------------------ MODULE EnvFile ------------------------------
(***************************************************************************)
(* config.py: how the agent reads and edits a file of KEY=value lines that *)
(* is not its own.  SeveringConfig takes such a file as the function its   *)
(* readers see; here that is shown to be what an edit changes, and all.    *)
(***************************************************************************)
LOCAL INSTANCE Naturals
LOCAL INSTANCE Sequences
LOCAL INSTANCE SequencesExt

(* A line assigns a value to a key, tight or with space around its `=', or *)
(* is a comment, an assignment that was commented out included.            *)
LineForms == {"tight", "spaced", "comment"}

Line(form, key, value) == [form |-> form, key |-> key, value |-> value]

(* env_values: the last assignment wins, and a comment is none.            *)
EnvValues(text) ==
  LET live == SelectSeq(text, LAMBDA l : l.form # "comment")
      last[k \in {l.key : l \in ToSet(live)}] == SelectLastInSeq(live, LAMBDA l : l.key = k)
  IN  [k \in DOMAIN last |-> live[last[k]].value]

(* env_replaced: the tight assignments go, and the new one comes last.     *)
EnvReplaced(text, key, value) ==
  Append(SelectSeq(text, LAMBDA l : ~(l.form = "tight" /\ l.key = key)),
         Line("tight", key, value))

-----------------------------------------------------------------------------
(* Every text of at most three lines, and every edit of it.                *)
LOCAL EnvKeys  == {"IFACE", "DOMAIN"}
LOCAL EnvLines == {Line(f, k, v) : f \in LineForms, k \in EnvKeys, v \in {"0", "1"}}
LOCAL EnvTexts == BoundedSeq(EnvLines, 3)

(* What is read after an edit is what was read before, with the value that *)
(* was written in its key's place: a duplicate, a commented assignment or a*)
(* spaced one never hides it.                                              *)
ASSUME EditIsRead ==
  \A text \in EnvTexts, key \in EnvKeys :
    LET was == EnvValues(text)
    IN  EnvValues(EnvReplaced(text, key, "2")) =
          [k \in DOMAIN was \cup {key} |-> IF k = key THEN "2" ELSE was[k]]

(* An edit assigns its key once, unless the file had a spaced assignment of*)
(* it, which stays in front of the new one; every other line of the file,  *)
(* its comments first of all, stays as it is and in its place.             *)
ASSUME EditKeepsLines ==
  \A text \in EnvTexts, key \in EnvKeys :
    LET now       == EnvReplaced(text, key, "2")
        Others(s) == SelectSeq(s, LAMBDA l : l.key # key \/ l.form # "tight")
    IN  /\ Others(now) = Others(text)
        /\ (\A i \in DOMAIN text : text[i].key = key => text[i].form # "spaced") =>
             Len(SelectSeq(now, LAMBDA l : l.form # "comment" /\ l.key = key)) = 1
=============================================================================
