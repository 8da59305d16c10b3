---------------------------- MODULE VersionRegistry ----------------------------
(***************************************************************************)
(* What the users of the survey import may rely on, however their uploads  *)
(* and commits overlap: importing a source takes effect at one moment.  It *)
(* then either makes the next version of a survey, which becomes the one   *)
(* that collects responses, or it adopts a version that exists.  A survey  *)
(* that has been deleted only returns with a newer version.  This is the   *)
(* specification that ImportCommit implements.                             *)
(***************************************************************************)
EXTENDS Naturals, Sequences, FiniteSets

CONSTANTS Sources, Externals, Contents

VARIABLES
  log,       \* the versions, in the order they were made
  produced,  \* the version each source has led to, 0 before
  current,   \* what collects responses under each external id
  answers    \* which version a user was told a source has led to

Checksums == Externals \X Contents
Nothing == <<>>

Init ==
  /\ log = <<>>
  /\ produced = [s \in Sources |-> 0]
  /\ current = [e \in Externals |-> Nothing]
  /\ answers = {}

LogOf(e) == {v \in DOMAIN log : log[v].checksum[1] = e}

\* A source leads to one version for good.
Answer(s, v) ==
  /\ produced[s] \in {0, v}
  /\ produced' = [produced EXCEPT ![s] = v]
  /\ answers' = answers \cup {<<s, v>>}

Make(s, d) ==
  /\ produced[s] = 0
  /\ \A v \in DOMAIN log : log[v].checksum # d
  /\ log' = Append(log, [checksum |-> d, number |-> Cardinality(LogOf(d[1])) + 1])
  /\ current' = [current EXCEPT ![d[1]] = d]
  /\ Answer(s, Len(log) + 1)

Adopt(s, v) ==
  /\ Answer(s, v)
  /\ UNCHANGED <<log, current>>

Withdraw(e) ==
  /\ current' = [current EXCEPT ![e] = Nothing]
  /\ UNCHANGED <<log, produced, answers>>

Next ==
  \/ \E s \in Sources :
       (\E d \in Checksums : Make(s, d)) \/ (\E v \in DOMAIN log : Adopt(s, v))
  \/ \E e \in Externals : Withdraw(e)

Spec == Init /\ [][Next]_<<log, produced, current, answers>>
=============================================================================
