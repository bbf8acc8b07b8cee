-------------------------- MODULE StreamCopy_proofs --------------------------
(***************************************************************************)
(* Theorems about StreamCopy, for files of any length and any number of    *)
(* changes and failures.                                                   *)
(***************************************************************************)
EXTENDS StreamCopy, SequenceTheorems, TLAPS

\* What the target holds once streamCopy() has opened it.
InHand == {"poll", "pass", "check", "close"}

\* How much of the target is known to come from the source.
Copied ==
  CASE pc \in InHand \cup {"verify"} -> block - 1
    [] pc = "open" -> start
    [] OTHER -> 0

\* The target is as long as the offset it is resumed at, or as what was written.
Extent ==
  /\ pc = "verify" => file[target] # Nothing /\ Len(file[target]) = start /\ block <= start + 1
  /\ pc = "conflict" => start = 0
  /\ pc = "open" => start = 0 \/ (file[target] # Nothing /\ Len(file[target]) = start)
  /\ pc \in InHand => file[target] # Nothing /\ Len(file[target]) = block - 1 /\ start < block

\* No more is written than the source had when it was opened.
Measure ==
  /\ pc = "poll" /\ known => block - 1 <= size
  /\ pc = "pass" /\ known => block <= size
  /\ pc = "check" => known /\ ok /\ block - 1 = size

\* What is copied, or was verified, is what the source still has there.
Agreement ==
  /\ touched = "no" => Copied <= Len(src)
  /\ touched # "edited" => \A i \in 1..Copied : i <= Len(src) => file[target][i] = src[i]

\* What is about to be committed, or is, has been compared with the source.
Verdict ==
  (pc = "close" /\ ok) \/ result = "done" =>
    /\ known => Len(file[target]) = size
    /\ checked # Unknown =>
         /\ \A i \in DOMAIN checked \cap DOMAIN file[target] : file[target][i] = checked[i]
         /\ sure => file[target] = checked

Counting ==
  done = IF pc \in {"poll", "pass", "check"} \/ (pc = "close" /\ ok) THEN block - 1
         ELSE IF result = "done" THEN Len(file[target])
         ELSE IF pc = "close" THEN done ELSE 0

Stopping == late <= 1 /\ (late = 1 => cancelled /\ pc # "pass")

StreamInv ==
  TypeOK /\ Extent /\ Measure /\ Agreement /\ Verdict /\ Counting /\ Stopping

USE BlocksAssumption DEF BlocksAssumption
USE BoundsAssumption DEF BoundsAssumption

-----------------------------------------------------------------------------
(* Contents                                                                *)

LEMMA ContentIsSeq ==
  ASSUME NEW s
  PROVE  s \in Content <=> s \in Seq(Block) /\ Len(s) \in Lengths
  <1>1. ASSUME s \in Content PROVE s \in Seq(Block) /\ Len(s) \in Lengths
    BY <1>1 DEF Content, Lengths
  <1>2. ASSUME s \in Seq(Block), Len(s) \in Lengths PROVE s \in Content
    BY <1>2, LenProperties DEF Content
  <1> QED  BY <1>1, <1>2

LEMMA NoContent == Nothing \notin Content /\ Unknown \notin Content
  <1>1. ASSUME NEW b \in Int, <<b>> \in Content PROVE b \in Block
    <2>1. <<b>> \in Seq(Block) /\ Len(<<b>>) = 1
      BY <1>1, ContentIsSeq
    <2> QED  BY <2>1, ElementOfSeq
  <1> QED  BY <1>1 DEF Nothing, Unknown, Block

\* The first n blocks of a file.
LEMMA Beginning ==
  ASSUME NEW s \in Content, NEW n \in 0..Len(s)
  PROVE  /\ SubSeq(s, 1, n) \in Content /\ Len(SubSeq(s, 1, n)) = n
         /\ \A i \in 1..n : SubSeq(s, 1, n)[i] = s[i]
  <1>1. s \in Seq(Block) /\ Len(s) \in 0..MaxBlocks
    BY ContentIsSeq DEF Lengths
  <1>2. \A i \in 1..n : s[i] \in Block
    BY <1>1, ElementOfSeq
  <1>3. n \in Int /\ n \in 0..MaxBlocks
    BY <1>1
  <1>4. /\ SubSeq(s, 1, n) \in Seq(Block)
        /\ Len(SubSeq(s, 1, n)) = IF 1 <= n THEN n - 1 + 1 ELSE 0
        /\ \A i \in 1 .. n - 1 + 1 : SubSeq(s, 1, n)[i] = s[1 + i - 1]
    BY <1>2, <1>3, SubSeqProperties
  <1>5. PICK t : t = SubSeq(s, 1, n)
    OBVIOUS
  <1>6. n - 1 + 1 = n /\ \A i \in 1..n : 1 + i - 1 = i
    OBVIOUS
  <1>7. Len(t) = n /\ \A i \in 1..n : t[i] = s[i]
    BY <1>3, <1>4, <1>5, <1>6
  <1>8. t \in Content
    BY <1>3, <1>4, <1>5, <1>7, ContentIsSeq DEF Lengths
  <1> QED  BY <1>5, <1>7, <1>8

\* A file one block longer.
LEMMA Extended ==
  ASSUME NEW s \in Content, Len(s) < MaxBlocks, NEW t,
         t \in Seq(Block), Len(t) = Len(s) + 1
  PROVE  t \in Content
  BY ContentIsSeq DEF Lengths

\* The write of block k.
WithBlock(s, k, b) == SubSeq(s, 1, k - 1) \o <<b>> \o SubSeq(s, k + 1, Len(s))

\* The write at the end of what is there.
LEMMA Written ==
  ASSUME NEW s \in Content, NEW b \in Block, Len(s) < MaxBlocks, NEW k \in Nat, k - 1 = Len(s),
         NEW t, t = WithBlock(s, k, b)
  PROVE  /\ t \in Content /\ Len(t) = k /\ t[k] = b
         /\ \A i \in 1..(k - 1) : t[i] = s[i]
  <1>1. s \in Seq(Block) /\ Len(s) \in Nat
    BY ContentIsSeq, LenProperties
  <1>2. SubSeq(s, 1, k - 1) = s
    BY <1>1, SubSeqFull
  <1>3. SubSeq(s, k + 1, Len(s)) = << >>
    BY <1>1, SubSeqEmpty
  <1>0. <<b>> \in Seq(Block) /\ Len(<<b>>) = 1 /\ <<b>>[1] = b
    OBVIOUS
  <1>4. PICK w \in Seq(Block) : w = <<b>> /\ Len(w) = 1 /\ w[1] = b
    BY <1>0, Zenon
  <1>5. s \o w \in Seq(Block)
    BY <1>1, <1>4, ConcatProperties
  <1>6. t = s \o w
    BY <1>2, <1>3, <1>4, <1>5, ConcatEmptySeq DEF WithBlock
  <1>7. /\ Len(s \o w) = Len(s) + Len(w)
        /\ \A i \in 1 .. Len(s) + Len(w) : (s \o w)[i] = IF i <= Len(s) THEN s[i] ELSE w[i - Len(s)]
    <2>1. w \in Seq(Block)
      BY <1>4
    <2> QED  BY <1>1, <2>1, ConcatProperties, Zenon
  <1>8. t \in Content
    BY <1>4, <1>5, <1>6, <1>7, Extended
  <1>9. /\ k = Len(s) + Len(w) /\ k \in 1 .. Len(s) + Len(w) /\ ~(k <= Len(s)) /\ k - Len(s) = 1
        /\ \A i \in 1 .. k - 1 : i \in 1 .. Len(s) + Len(w) /\ i <= Len(s)
    BY <1>1, <1>4
  <1>10. t[k] = b /\ Len(t) = k
    BY <1>4, <1>6, <1>7, <1>9
  <1>11. \A i \in 1 .. k - 1 : t[i] = s[i]
    BY <1>6, <1>7, <1>9
  <1> QED  BY <1>8, <1>10, <1>11

\* The changes somebody else makes of the source.
LEMMA Changed ==
  ASSUME NEW s \in Content
  PROVE  /\ Len(s) < MaxBlocks => Append(s, -(Len(s) + 1)) \in Content
         /\ \A i \in DOMAIN s : [s EXCEPT ![i] = -i] \in Content
  <1>1. s \in Seq(Block) /\ Len(s) \in 0..MaxBlocks /\ DOMAIN s = 1..Len(s)
    BY ContentIsSeq, LenProperties DEF Lengths
  <1>2. ASSUME Len(s) < MaxBlocks PROVE Append(s, -(Len(s) + 1)) \in Content
    <2>1. -(Len(s) + 1) \in Block
      BY <1>1, <1>2 DEF Block
    <2>2. PICK t : t = Append(s, -(Len(s) + 1))
      OBVIOUS
    <2>3. t \in Seq(Block) /\ Len(t) = Len(s) + 1
      BY <1>1, <2>1, <2>2, AppendProperties
    <2> QED  BY <1>2, <2>1, <2>2, <2>3, Extended
  <1>3. ASSUME NEW i \in DOMAIN s PROVE [s EXCEPT ![i] = -i] \in Content
    <2>1. -i \in Block
      BY <1>1 DEF Block
    <2>2. [s EXCEPT ![i] = -i] \in Seq(Block) /\ Len([s EXCEPT ![i] = -i]) = Len(s)
      BY <1>1, <2>1, ExceptSeq
    <2> QED  BY <1>1, <2>2, ContentIsSeq DEF Lengths
  <1> QED  BY <1>2, <1>3

\* Two files of one length that agree are one file.
LEMMA SameContent ==
  ASSUME NEW s \in Content, NEW t \in Content, Len(s) = Len(t), \A i \in 1..Len(s) : s[i] = t[i]
  PROVE  s = t
  BY ContentIsSeq, SeqEqual

-----------------------------------------------------------------------------
(* The steps                                                               *)

LEMMA StreamInit == Init => StreamInv
  <1> SUFFICES ASSUME Init PROVE StreamInv
    OBVIOUS
  <1>1. src \in Content
    <2>1. PICK n \in Lengths : src = [i \in 1..n |-> i]
      BY DEF Init
    <2> QED  BY <2>1 DEF Content, Lengths, Block
  <1>2. file \in [Name -> Content \cup {Nothing}]
    <2>1. PICK f \in Occupants \cup {Nothing} : file = [n \in Name |-> IF n = "dst" THEN f ELSE Nothing]
      BY DEF Init
    <2>2. Occupants \subseteq Content
      <3>1. ASSUME NEW n \in Lengths, NEW s \in [1..n -> (1..n) \cup {0}] PROVE s \in Content
        <4>1. (1..n) \cup {0} \subseteq Block
          BY DEF Lengths, Block
        <4> QED  BY <4>1 DEF Content
      <3> QED  BY <3>1 DEF Occupants
    <2> QED  BY <2>1, <2>2
  <1>3. known \in BOOLEAN /\ fresh \in BOOLEAN /\ resumable \in BOOLEAN
    BY ProviderAssumption DEF ProviderAssumption, Init
  <1>4. TypeOK
    <2>1. start \in Lengths /\ size \in Lengths \cup {-1} /\ block \in 1..MaxBlocks + 1 /\ done \in Lengths
      BY DEF Init, Lengths
    <2>2. /\ attempt \in 0..2 /\ late \in Nat /\ changes \in 0..MaxChanges /\ failures \in 0..MaxFailures
      BY DEF Init
    <2> QED  BY <1>1, <1>2, <1>3, <2>1, <2>2 DEF Init, TypeOK, Name
  <1>5. Copied = 0
    BY DEF Init, Copied, InHand
  <1>6. Agreement
    <2>1. \A i \in 1..0 : FALSE
      OBVIOUS
    <2>2. Len(src) >= 0
      BY <1>1, ContentIsSeq, LenProperties
    <2> QED  BY <1>5, <2>1, <2>2 DEF Agreement
  <1>7. Extent /\ Measure /\ Verdict
    BY DEF Init, Extent, Measure, Verdict, InHand
  <1>8. Counting /\ Stopping
    BY DEF Init, Counting, Stopping
  <1> QED
    BY <1>4, <1>6, <1>7, <1>8 DEF StreamInv

\* A block handed out is the source's, unless the source was rewritten there or does
\* not reach so far any more.
LEMMA HandedIsSource ==
  ASSUME TypeOK, NEW b \in Handed
  PROVE  /\ touched = "no" => block <= Len(src)
         /\ touched # "edited" /\ block <= Len(src) => b = src[block]
         /\ b \in Block /\ block <= MaxBlocks
  <1>1. /\ src \in Seq(Block) /\ Len(src) \in Lengths /\ block \in 1..MaxBlocks + 1
        /\ changes \in Nat /\ touched \in {"no", "shrunk", "edited"}
    BY ContentIsSeq DEF TypeOK
  <1>2. CASE block <= Len(src) /\ b = src[block]
    <2>1. block \in 1..Len(src) /\ block <= MaxBlocks
      BY <1>1, <1>2 DEF Lengths
    <2>2. src[block] \in Block
      BY <1>1, <2>1, ElementOfSeq
    <2> QED  BY <1>2, <2>1, <2>2
  <1>3. CASE ReadAhead /\ b \in {block, -block}
    <2>1. block <= MaxBlocks
      BY <1>1, <1>3 DEF ReadAhead, Lengths
    <2> QED  BY <1>1, <1>3, <2>1 DEF ReadAhead, Block, Lengths
  <1> QED  BY <1>2, <1>3 DEF Handed

\* What no step changes of what was copied.
LEMMA AgreementKept ==
  ASSUME Agreement, src' = src, file'[target'] = file[target], touched' = touched, Copied' = Copied
  PROVE  Agreement'
  BY DEF Agreement

LEMMA NothingCopied ==
  ASSUME src' \in Content, Copied' = 0
  PROVE  Agreement'
  <1>1. Len(src') \in Lengths
    BY ContentIsSeq
  <1>2. \A i \in 1..0 : FALSE
    OBVIOUS
  <1> QED  BY <1>1, <1>2 DEF Agreement, Lengths

\* The steps before a copy is opened, and the answers: the target is as it was.
LEMMA DecidingStep ==
  ASSUME StreamInv, Deciding \/ Answering \/ OpenFails \/ Cancel
  PROVE  StreamInv'
  <1> USE DEF env, setting, cursor, history, Return, Fault, Anew
  <1>0. /\ TypeOK /\ Extent /\ Measure /\ Agreement /\ Verdict /\ Counting /\ Stopping
        /\ src \in Content /\ Len(src) \in Lengths
        /\ file[target] \in Content \cup {Nothing}
        /\ file[target] # Nothing => Len(file[target]) \in Lengths
    BY ContentIsSeq DEF StreamInv, TypeOK
  <1>1. CASE ProbeFree
    <2>1. TypeOK'
      <3>1. sure' \in BOOLEAN /\ mine' \in BOOLEAN
        BY <1>0, <1>1 DEF ProbeFree, TypeOK
      <3> QED  BY <1>0, <1>1, <3>1 DEF ProbeFree, TypeOK, Lengths
    <2>2. Agreement'
      BY <1>0, <1>1, NothingCopied DEF ProbeFree, Copied, InHand
    <2>3. Extent' /\ Measure'
      BY <1>0, <1>1 DEF ProbeFree, Extent, Measure, InHand
    <2>4. Verdict' /\ Counting' /\ Stopping'
      BY <1>0, <1>1 DEF ProbeFree, Verdict, Counting, Stopping, TypeOK
    <2> QED  BY <2>1, <2>2, <2>3, <2>4 DEF StreamInv
  <1>2. CASE ProbeMissed
    <2>1. TypeOK'
      <3>1. sure' \in BOOLEAN /\ mine' \in BOOLEAN
        BY <1>0, <1>2 DEF ProbeMissed, TypeOK
      <3> QED  BY <1>0, <1>2, <3>1 DEF ProbeMissed, Partial, There, TypeOK, Lengths
    <2>2. Agreement'
      BY <1>0, <1>2, NothingCopied DEF ProbeMissed, Partial, There, Copied, InHand
    <2>3. Extent' /\ Measure'
      BY <1>0, <1>2 DEF ProbeMissed, Partial, There, Extent, Measure, InHand, TypeOK, Lengths
    <2>4. Verdict' /\ Counting' /\ Stopping'
      BY <1>0, <1>2 DEF ProbeMissed, Partial, There, Verdict, Counting, Stopping, TypeOK
    <2> QED  BY <2>1, <2>2, <2>3, <2>4 DEF StreamInv
  <1>3. CASE ProbeShorter
    <2>1. TypeOK'
      <3>1. sure' \in BOOLEAN /\ mine' \in BOOLEAN
        BY <1>0, <1>3 DEF ProbeShorter, TypeOK
      <3> QED  BY <1>0, <1>3, <3>1 DEF ProbeShorter, Partial, There, TypeOK, Lengths
    <2>2. Agreement'
      BY <1>0, <1>3, NothingCopied DEF ProbeShorter, Partial, There, Copied, InHand
    <2>3. Extent' /\ Measure'
      BY <1>0, <1>3 DEF ProbeShorter, Partial, There, Extent, Measure, InHand, TypeOK, Lengths
    <2>4. Verdict' /\ Counting' /\ Stopping'
      BY <1>0, <1>3 DEF ProbeShorter, Partial, There, Verdict, Counting, Stopping, TypeOK
    <2> QED  BY <2>1, <2>2, <2>3, <2>4 DEF StreamInv
  <1>4. CASE ProbeOccupied
    <2>1. TypeOK'
      <3>1. sure' \in BOOLEAN /\ mine' \in BOOLEAN
        BY <1>0, <1>4 DEF ProbeOccupied, TypeOK
      <3> QED  BY <1>0, <1>4, <3>1 DEF ProbeOccupied, Partial, There, TypeOK, Lengths
    <2>2. Agreement'
      BY <1>0, <1>4, NothingCopied DEF ProbeOccupied, Partial, There, Copied, InHand
    <2>3. Extent' /\ Measure'
      BY <1>0, <1>4 DEF ProbeOccupied, Partial, There, Extent, Measure, InHand, TypeOK, Lengths
    <2>4. Verdict' /\ Counting' /\ Stopping'
      BY <1>0, <1>4 DEF ProbeOccupied, Partial, There, Verdict, Counting, Stopping, TypeOK
    <2> QED  BY <2>1, <2>2, <2>3, <2>4 DEF StreamInv
  <1>5. CASE VerifyBlock
    <2>1. TypeOK'
      BY <1>0, <1>5 DEF VerifyBlock, TypeOK, Lengths
    <2>2. Agreement'
      <3>1. block \in Nat /\ Copied = block - 1 /\ Copied' = block /\ 1..block = 1..(block - 1) \cup {block}
        BY <1>0, <1>5 DEF VerifyBlock, Copied, InHand, TypeOK
      <3>2. file[target][block] \in Handed /\ UNCHANGED <<src, file, target, touched>>
        BY <1>5 DEF VerifyBlock
      <3>3. /\ touched = "no" => block <= Len(src)
            /\ touched # "edited" /\ block <= Len(src) => file[target][block] = src[block]
        BY <1>0, <3>1, <3>2, HandedIsSource
      <3> QED  BY <1>0, <3>1, <3>2, <3>3 DEF Agreement, Lengths
    <2>3. Extent' /\ Measure'
      BY <1>0, <1>5 DEF VerifyBlock, Extent, Measure, InHand, TypeOK, Lengths
    <2>4. Verdict' /\ Counting' /\ Stopping'
      BY <1>0, <1>5 DEF VerifyBlock, Verdict, Counting, Stopping, TypeOK
    <2> QED  BY <2>1, <2>2, <2>3, <2>4 DEF StreamInv
  <1>6. CASE VerifyRefuses
    <2>1. TypeOK'
      BY <1>0, <1>6 DEF VerifyRefuses, TypeOK, Lengths
    <2>2. Agreement'
      BY <1>0, <1>6, NothingCopied DEF VerifyRefuses, Copied, InHand
    <2>3. Extent' /\ Measure'
      BY <1>0, <1>6 DEF VerifyRefuses, Extent, Measure, InHand, TypeOK, Lengths
    <2>4. Verdict' /\ Counting' /\ Stopping'
      BY <1>0, <1>6 DEF VerifyRefuses, Verdict, Counting, Stopping, TypeOK
    <2> QED  BY <2>1, <2>2, <2>3, <2>4 DEF StreamInv
  <1>7. CASE Verified
    <2>1. TypeOK'
      BY <1>0, <1>7 DEF Verified, TypeOK, Lengths
    <2>2. Agreement'
      BY <1>0, <1>7, AgreementKept DEF Verified, Copied, InHand, Extent, TypeOK, Lengths
    <2>3. Extent' /\ Measure'
      BY <1>0, <1>7 DEF Verified, Extent, Measure, InHand, TypeOK, Lengths
    <2>4. Verdict' /\ Counting' /\ Stopping'
      BY <1>0, <1>7 DEF Verified, Verdict, Counting, Stopping, TypeOK
    <2> QED  BY <2>1, <2>2, <2>3, <2>4 DEF StreamInv
  <1>8. CASE AnswerOverwrite
    <2>1. TypeOK'
      BY <1>0, <1>8 DEF AnswerOverwrite, TypeOK, Lengths
    <2>2. Agreement'
      BY <1>0, <1>8, NothingCopied DEF AnswerOverwrite, Extent, Copied, InHand
    <2>3. Extent' /\ Measure'
      BY <1>0, <1>8 DEF AnswerOverwrite, Extent, Measure, InHand, TypeOK, Lengths
    <2>4. Verdict' /\ Counting' /\ Stopping'
      BY <1>0, <1>8 DEF AnswerOverwrite, Verdict, Counting, Stopping, TypeOK
    <2> QED  BY <2>1, <2>2, <2>3, <2>4 DEF StreamInv
  <1>9. CASE AnswerRename
    <2>1. TypeOK'
      BY <1>0, <1>9 DEF AnswerRename, TypeOK, Lengths, Name
    <2>2. Agreement'
      BY <1>0, <1>9, NothingCopied DEF AnswerRename, Extent, Copied, InHand
    <2>3. Extent' /\ Measure'
      BY <1>0, <1>9 DEF AnswerRename, Extent, Measure, InHand, TypeOK, Lengths
    <2>4. Verdict' /\ Counting' /\ Stopping'
      BY <1>0, <1>9 DEF AnswerRename, Verdict, Counting, Stopping, TypeOK
    <2> QED  BY <2>1, <2>2, <2>3, <2>4 DEF StreamInv
  <1>10. CASE AnswerSkip
    <2>1. TypeOK'
      BY <1>0, <1>10 DEF AnswerSkip, TypeOK, Lengths
    <2>2. Agreement'
      BY <1>0, <1>10, NothingCopied DEF AnswerSkip, Copied, InHand
    <2>3. Extent' /\ Measure'
      BY <1>0, <1>10 DEF AnswerSkip, Extent, Measure, InHand, TypeOK, Lengths
    <2>4. Verdict' /\ Counting' /\ Stopping'
      BY <1>0, <1>10 DEF AnswerSkip, Verdict, Counting, Stopping, TypeOK
    <2> QED  BY <2>1, <2>2, <2>3, <2>4 DEF StreamInv
  <1>11. CASE AnswerCancel
    <2>1. TypeOK'
      BY <1>0, <1>11 DEF AnswerCancel, TypeOK, Lengths
    <2>2. Agreement'
      BY <1>0, <1>11, NothingCopied DEF AnswerCancel, Copied, InHand
    <2>3. Extent' /\ Measure'
      BY <1>0, <1>11 DEF AnswerCancel, Extent, Measure, InHand, TypeOK, Lengths
    <2>4. Verdict' /\ Counting' /\ Stopping'
      BY <1>0, <1>11 DEF AnswerCancel, Verdict, Counting, Stopping, TypeOK
    <2> QED  BY <2>1, <2>2, <2>3, <2>4 DEF StreamInv
  <1>12. CASE Retry
    <2>1. TypeOK'
      BY <1>0, <1>12 DEF Retry, TypeOK, Lengths
    <2>2. Agreement'
      BY <1>0, <1>12, NothingCopied DEF Retry, Copied, InHand
    <2>3. Extent' /\ Measure'
      BY <1>0, <1>12 DEF Retry, Extent, Measure, InHand, TypeOK, Lengths
    <2>4. Verdict' /\ Counting' /\ Stopping'
      BY <1>0, <1>12 DEF Retry, Verdict, Counting, Stopping, TypeOK
    <2> QED  BY <2>1, <2>2, <2>3, <2>4 DEF StreamInv
  <1>13. CASE Skip
    <2>1. TypeOK'
      BY <1>0, <1>13 DEF Skip, TypeOK, Lengths
    <2>2. Agreement'
      BY <1>0, <1>13, NothingCopied DEF Skip, Copied, InHand
    <2>3. Extent' /\ Measure'
      BY <1>0, <1>13 DEF Skip, Extent, Measure, InHand, TypeOK, Lengths
    <2>4. Verdict' /\ Counting' /\ Stopping'
      BY <1>0, <1>13 DEF Skip, Verdict, Counting, Stopping, TypeOK
    <2> QED  BY <2>1, <2>2, <2>3, <2>4 DEF StreamInv
  <1>14. CASE Abort
    <2>1. TypeOK'
      BY <1>0, <1>14 DEF Abort, TypeOK, Lengths
    <2>2. Agreement'
      BY <1>0, <1>14, NothingCopied DEF Abort, Copied, InHand
    <2>3. Extent' /\ Measure'
      BY <1>0, <1>14 DEF Abort, Extent, Measure, InHand, TypeOK, Lengths
    <2>4. Verdict' /\ Counting' /\ Stopping'
      BY <1>0, <1>14 DEF Abort, Verdict, Counting, Stopping, TypeOK
    <2> QED  BY <2>1, <2>2, <2>3, <2>4 DEF StreamInv
  <1>15. CASE OpenFails
    <2>1. TypeOK'
      BY <1>0, <1>15 DEF OpenFails, TypeOK, Lengths
    <2>2. Agreement'
      BY <1>0, <1>15, NothingCopied DEF OpenFails, Copied, InHand
    <2>3. Extent' /\ Measure'
      BY <1>0, <1>15 DEF OpenFails, Extent, Measure, InHand, TypeOK, Lengths
    <2>4. Verdict' /\ Counting' /\ Stopping'
      BY <1>0, <1>15 DEF OpenFails, Verdict, Counting, Stopping, TypeOK
    <2> QED  BY <2>1, <2>2, <2>3, <2>4 DEF StreamInv
  <1>16. CASE Cancel
    <2>1. TypeOK'
      BY <1>0, <1>16 DEF Cancel, TypeOK, Lengths
    <2>2. Agreement'
      BY <1>0, <1>16, AgreementKept DEF Cancel, Copied, InHand, Extent, TypeOK, Lengths
    <2>3. Extent' /\ Measure'
      BY <1>0, <1>16 DEF Cancel, Extent, Measure, InHand, TypeOK, Lengths
    <2>4. Verdict' /\ Counting' /\ Stopping'
      BY <1>0, <1>16 DEF Cancel, Verdict, Counting, Stopping, TypeOK
    <2> QED  BY <2>1, <2>2, <2>3, <2>4 DEF StreamInv
  <1> QED
    BY <1>1, <1>2, <1>3, <1>4, <1>5, <1>6, <1>7, <1>8, <1>9, <1>10, <1>11, <1>12, <1>13, <1>14, <1>15, <1>16 DEF Deciding, Answering

\* A source that was not rewritten is what was copied, as far as both reach.
LEMMA Compared ==
  ASSUME TypeOK, Extent, Agreement, pc \in {"pass", "check"}, touched # "edited"
  PROVE  /\ \A i \in DOMAIN src \cap DOMAIN file[target] : file[target][i] = src[i]
         /\ Len(src) = Len(file[target]) => file[target] = src
  <1>1. src \in Content /\ file[target] \in Content /\ Len(file[target]) = block - 1
    BY DEF TypeOK, Extent, InHand
  <1>2. /\ DOMAIN src = 1..Len(src) /\ DOMAIN file[target] = 1..Len(file[target])
        /\ Len(src) \in Nat /\ Len(file[target]) \in Nat
    BY <1>1, ContentIsSeq, LenProperties
  <1>3. Copied = Len(file[target])
    BY <1>1 DEF Copied, InHand
  <1>4. \A i \in DOMAIN src \cap DOMAIN file[target] : file[target][i] = src[i]
    BY <1>2, <1>3 DEF Agreement
  <1>5. Len(src) = Len(file[target]) => file[target] = src
    BY <1>1, <1>2, <1>4, SameContent
  <1> QED  BY <1>4, <1>5

\* The steps of the copying loop and of the end that leave the target as it is.
LEMMA LoopStep ==
  ASSUME StreamInv,
         \/ PollCancelled \/ PollContinue \/ PollComplete
         \/ EndOfSource \/ CopyFails \/ Check \/ CloseCommits
  PROVE  StreamInv'
  <1> USE DEF env, setting, cursor, history, Return, Fault, StopStreaming
  <1>0. /\ TypeOK /\ Extent /\ Measure /\ Agreement /\ Verdict /\ Counting /\ Stopping
        /\ src \in Content /\ Len(src) \in Lengths
        /\ file[target] \in Content \cup {Nothing}
        /\ file[target] # Nothing => file[target] \in Content /\ Len(file[target]) \in Lengths
    BY ContentIsSeq DEF StreamInv, TypeOK
  <1>1. CASE PollCancelled
    <2>1. TypeOK'
      BY <1>0, <1>1 DEF PollCancelled, TypeOK, Lengths
    <2>2. Agreement'
      BY <1>0, <1>1, AgreementKept DEF PollCancelled, Copied, InHand
    <2>3. Extent' /\ Measure'
      BY <1>0, <1>1 DEF PollCancelled, Extent, Measure, InHand, TypeOK, Lengths
    <2>4. Verdict' /\ Counting' /\ Stopping'
      BY <1>0, <1>1 DEF PollCancelled, Verdict, Counting, Stopping, TypeOK
    <2> QED  BY <2>1, <2>2, <2>3, <2>4 DEF StreamInv
  <1>2. CASE PollContinue
    <2>1. TypeOK'
      BY <1>0, <1>2 DEF PollContinue, TypeOK, Lengths
    <2>2. Agreement'
      BY <1>0, <1>2, AgreementKept DEF PollContinue, Copied, InHand
    <2>3. Extent' /\ Measure'
      BY <1>0, <1>2 DEF PollContinue, Extent, Measure, InHand, TypeOK, Lengths
    <2>4. Verdict' /\ Counting' /\ Stopping'
      BY <1>0, <1>2 DEF PollContinue, Verdict, Counting, Stopping, TypeOK
    <2> QED  BY <2>1, <2>2, <2>3, <2>4 DEF StreamInv
  <1>3. CASE PollComplete
    <2>1. TypeOK'
      BY <1>0, <1>3 DEF PollComplete, TypeOK, Lengths
    <2>2. Agreement'
      BY <1>0, <1>3, AgreementKept DEF PollComplete, Copied, InHand
    <2>3. Extent' /\ Measure'
      BY <1>0, <1>3 DEF PollComplete, Extent, Measure, InHand, TypeOK, Lengths
    <2>4. Verdict' /\ Counting' /\ Stopping'
      BY <1>0, <1>3 DEF PollComplete, Verdict, Counting, Stopping, TypeOK
    <2> QED  BY <2>1, <2>2, <2>3, <2>4 DEF StreamInv
  <1>4. CASE EndOfSource
    <2>1. TypeOK'
      BY <1>0, <1>4 DEF EndOfSource, Look, TypeOK, Lengths
    <2>2. Agreement'
      BY <1>0, <1>4, AgreementKept DEF EndOfSource, Copied, InHand
    <2>3. Extent' /\ Measure'
      BY <1>0, <1>4 DEF EndOfSource, Extent, Measure, InHand, TypeOK, Lengths
    <2>5. ASSUME ok', checked' # Unknown
          PROVE  /\ \A i \in DOMAIN src \cap DOMAIN file[target] : file[target][i] = src[i]
                 /\ sure' => file[target] = src
      <3>4. touched # "edited" /\ pc = "pass"
        BY <1>4, <2>5 DEF EndOfSource, Look
      <3>5. ASSUME sure' PROVE fresh /\ touched = "no"
        BY <1>4, <3>5 DEF EndOfSource, Look
      <3>6. fresh => block > Len(src)
        BY <1>0, <1>4 DEF EndOfSource, EndSeen, Lengths
      <3>1. /\ touched # "edited" /\ pc = "pass"
            /\ sure' => block > Len(src) /\ touched = "no"
        BY <3>4, <3>5, <3>6
      <3>2. block \in Nat /\ Len(file[target]) = block - 1 /\ Copied = block - 1
        BY <1>0, <3>1 DEF Extent, Copied, InHand, TypeOK
      <3>3. sure' => Len(src) = Len(file[target])
        BY <1>0, <3>1, <3>2 DEF Agreement, Lengths
      <3> QED  BY <1>0, <3>1, <3>3, Compared
    <2>6. /\ pc' = "close" /\ ok' => ~known
          /\ checked' # Unknown => checked' = src
          /\ UNCHANGED <<file, target, known, result>> /\ result = "none"
      BY <1>0, <1>4 DEF EndOfSource, Look, TypeOK
    <2>7. Verdict'
      BY <2>5, <2>6 DEF Verdict
    <2>4. Counting' /\ Stopping'
      BY <1>0, <1>4, <2>1 DEF EndOfSource, Counting, Stopping, TypeOK
    <2> QED  BY <2>1, <2>2, <2>3, <2>4, <2>7 DEF StreamInv
  <1>5. CASE CopyFails
    <2>1. TypeOK'
      <3>1. /\ pc = "pass" /\ pc' = "close" /\ ok' = FALSE /\ failures' \in 0..MaxFailures
            /\ UNCHANGED <<env, setting, file, target, start, size, block, attempt, done, cancelled,
                           result, history>>
        BY <1>0, <1>5 DEF CopyFails, TypeOK
      <3> QED  BY <1>0, <3>1 DEF TypeOK
    <2>2. Agreement'
      BY <1>0, <1>5, AgreementKept DEF CopyFails, Copied, InHand
    <2>3. Extent' /\ Measure'
      BY <1>0, <1>5 DEF CopyFails, Extent, Measure, InHand, TypeOK, Lengths
    <2>4. Verdict' /\ Counting' /\ Stopping'
      BY <1>0, <1>5 DEF CopyFails, Verdict, Counting, Stopping, TypeOK
    <2> QED  BY <2>1, <2>2, <2>3, <2>4 DEF StreamInv
  <1>6. CASE Check
    <2>1. TypeOK'
      <3>1. /\ pc = "check" /\ pc' = "close" /\ ok' \in BOOLEAN
            /\ UNCHANGED <<env, setting, file, target, start, size, block, attempt, done, cancelled,
                           result, touched, late, mine>>
        BY <1>6 DEF Check
      <3>2. failures' \in 0..MaxFailures
        <4>1. UNCHANGED failures \/ (failures < MaxFailures /\ failures' = failures + 1)
          BY <1>6 DEF Check
        <4> QED  BY <1>0, <4>1 DEF TypeOK
      <3>3. checked' \in Content \cup {Unknown} /\ sure' \in BOOLEAN
        BY <1>0, <1>6 DEF Check, Look, TypeOK
      <3> QED  BY <1>0, <3>1, <3>2, <3>3 DEF TypeOK
    <2>2. Agreement'
      BY <1>0, <1>6, AgreementKept DEF Check, Copied, InHand
    <2>3. Extent' /\ Measure'
      BY <1>0, <1>6 DEF Check, Extent, Measure, InHand, TypeOK, Lengths
    <2>5. ASSUME ok'
          PROVE  /\ known => Len(file[target]) = size
                 /\ checked' # Unknown =>
                      /\ \A i \in DOMAIN src \cap DOMAIN file[target] : file[target][i] = src[i]
                      /\ sure' => file[target] = src
      <3>1. pc = "check" /\ block - 1 = size /\ Len(file[target]) = block - 1
        BY <1>0, <1>6 DEF Check, Measure, Extent, InHand
      <3>2. sure' => Len(src) = size
        BY <1>6, <2>5 DEF Check, Look
      <3>3. checked' # Unknown => touched # "edited"
        BY <1>6 DEF Check, Look
      <3> QED  BY <1>0, <3>1, <3>2, <3>3, Compared
    <2>6. /\ checked' # Unknown => checked' = src
          /\ UNCHANGED <<file, target, known, size, result>> /\ result = "none"
      BY <1>0, <1>6 DEF Check, Look, TypeOK
    <2>7. Verdict'
      BY <2>5, <2>6 DEF Verdict
    <2>4. Counting' /\ Stopping'
      BY <1>0, <1>6, <2>1 DEF Check, Counting, Stopping, TypeOK
    <2> QED  BY <2>1, <2>2, <2>3, <2>4, <2>7 DEF StreamInv
  <1>7. CASE CloseCommits
    <2>1. TypeOK'
      BY <1>0, <1>7 DEF CloseCommits, TypeOK, Lengths
    <2>2. Agreement'
      BY <1>0, <1>7, NothingCopied DEF CloseCommits, Copied, InHand
    <2>3. Extent' /\ Measure'
      BY <1>0, <1>7 DEF CloseCommits, Extent, Measure, InHand, TypeOK, Lengths
    <2>4. Verdict' /\ Counting' /\ Stopping'
      BY <1>0, <1>7 DEF CloseCommits, Verdict, Counting, Stopping, TypeOK, Extent, InHand
    <2> QED  BY <2>1, <2>2, <2>3, <2>4 DEF StreamInv
  <1> QED
    BY <1>1, <1>2, <1>3, <1>4, <1>5, <1>6, <1>7

\* Whatever a failed or refused commit leaves is a beginning of what was there.
LEMMA CutBack ==
  ASSUME TypeOK, NEW n \in Nat, file[target] \in Content, n <= Len(file[target]),
         file' = [file EXCEPT ![target] = SubSeq(@, 1, n)]
  PROVE  /\ file' \in [Name -> Content \cup {Nothing}]
         /\ file'[target] \in Content /\ Len(file'[target]) = n
         /\ \A i \in 1..n : file'[target][i] = file[target][i]
  <1>1. Len(file[target]) \in Nat /\ n \in 0..Len(file[target])
    BY ContentIsSeq, LenProperties
  <1>2. PICK f : f = SubSeq(file[target], 1, n)
    OBVIOUS
  <1>3. f \in Content /\ Len(f) = n /\ \A i \in 1..n : f[i] = file[target][i]
    BY <1>1, <1>2, Beginning
  <1>4. file' = [file EXCEPT ![target] = f] /\ file'[target] = f
    BY <1>2 DEF TypeOK
  <1> QED  BY <1>3, <1>4 DEF TypeOK

\* The steps that write the target.
LEMMA WritingStep ==
  ASSUME StreamInv, Open \/ CopyBlock \/ CloseLocked \/ CloseFails
  PROVE  StreamInv'
  <1> USE DEF env, setting, cursor, history, Return, Fault
  <1>0. /\ TypeOK /\ Extent /\ Measure /\ Agreement /\ Verdict /\ Counting /\ Stopping
        /\ src \in Content /\ Len(src) \in Lengths
        /\ file \in [Name -> Content \cup {Nothing}] /\ target \in Name
        /\ file[target] \in Content \cup {Nothing}
        /\ file[target] # Nothing => file[target] \in Content /\ Len(file[target]) \in Lengths
    BY ContentIsSeq DEF StreamInv, TypeOK
  <1>1. CASE Open
    <2>1. /\ pc = "open" /\ done = 0 /\ start \in 0..MaxBlocks /\ size' = (IF known THEN Len(src) ELSE -1)
          /\ block' = start + 1 /\ pc' \in {"poll", "close"} /\ (pc' = "close" <=> ~ok')
          /\ UNCHANGED <<env, setting, target, start, attempt, cancelled, result, history>>
      BY <1>0, <1>1 DEF Open, Counting, TypeOK, Lengths
    <2>2. /\ done' \in {0, start} /\ (pc' = "poll" => done' = start /\ ok' /\ (known => start <= Len(src)))
          /\ failures' \in 0..MaxFailures /\ ok' \in BOOLEAN
      <3>1. /\ done + start = start /\ failures' \in 0..MaxFailures
        BY <1>0, <1>1, <2>1 DEF Open, TypeOK
      <3>2. \/ pc' = "poll" /\ ok' = TRUE /\ done' = done + start /\ ~(known /\ start > Len(src))
            \/ pc' = "close" /\ ok' = FALSE /\ done' = done
        BY <1>1 DEF Open
      <3>3. CASE pc' = "poll" /\ ok' = TRUE /\ done' = done + start /\ ~(known /\ start > Len(src))
        <4>1. done' = start /\ (known => start <= Len(src))
          BY <1>0, <2>1, <3>1, <3>3 DEF Lengths
        <4> QED  BY <3>1, <3>3, <4>1
      <3>4. CASE pc' = "close" /\ ok' = FALSE /\ done' = done
        BY <2>1, <3>1, <3>4
      <3> QED  BY <3>2, <3>3, <3>4
    <2>3. /\ file' \in [Name -> Content \cup {Nothing}] /\ file'[target] \in Content
          /\ Len(file'[target]) = start
          /\ \A i \in 1..start : file'[target][i] = file[target][i]
      <3>1. CASE start = 0
        <4>1. PICK f : f = <<>>
          OBVIOUS
        <4>2. f \in Content /\ Len(f) = 0
          <5>1. f \in Seq(Block) /\ Len(f) = 0
            BY <4>1, EmptySeq
          <5>2. 0 \in Lengths
            BY DEF Lengths
          <5> QED  BY <5>1, <5>2, ContentIsSeq
        <4>3. file' = [file EXCEPT ![target] = f]
          BY <1>1, <3>1, <4>1 DEF Open
        <4> QED  BY <1>0, <3>1, <4>2, <4>3
      <3>2. CASE start # 0
        <4>1. file' = file
          BY <1>0, <1>1, <3>2 DEF Open
        <4> QED  BY <1>0, <2>1, <3>2, <4>1 DEF Extent
      <3> QED  BY <3>1, <3>2
    <2>4. TypeOK'
      BY <1>0, <2>1, <2>2, <2>3 DEF TypeOK, Lengths
    <2>5. Agreement'
      <3>1. Copied = start /\ Copied' = start
        BY <2>1 DEF Copied, InHand
      <3> QED  BY <1>0, <2>1, <2>3, <3>1 DEF Agreement
    <2>6. Extent' /\ Measure'
      BY <1>0, <2>1, <2>2, <2>3, NoContent DEF Extent, Measure, InHand, Lengths
    <2>7. Verdict' /\ Counting' /\ Stopping'
      BY <1>0, <2>1, <2>2 DEF Verdict, Counting, Stopping, TypeOK
    <2> QED  BY <2>4, <2>5, <2>6, <2>7 DEF StreamInv
  <1>2. CASE CopyBlock
    <2>1. /\ pc = "pass" /\ pc' = "poll" /\ block' = block + 1 /\ done' = done + 1
          /\ done = block - 1 /\ late' \in 0..1 /\ (late' = 1 => cancelled)
          /\ UNCHANGED <<env, setting, target, start, size, ok, attempt, cancelled, result, touched,
                         checked, sure, mine, failures>>
      BY <1>0, <1>2 DEF CopyBlock, Counting, Stopping, TypeOK
    <2>2. file[target] \in Content /\ Len(file[target]) = block - 1 /\ start < block
      BY <1>0, <2>1 DEF Extent, InHand
    <2>3. PICK c \in Handed :
            file' = [file EXCEPT ![target] = SubSeq(@, 1, block - 1) \o <<c>> \o SubSeq(@, block + 1, Len(@))]
      BY <1>2 DEF CopyBlock
    <2>11. /\ c \in Block /\ block \in 1..MaxBlocks /\ (touched = "no" => block <= Len(src))
           /\ (touched # "edited" /\ block <= Len(src) => c = src[block])
      BY <1>0, HandedIsSource DEF TypeOK
    <2>4. PICK f : f = WithBlock(file[target], block, c)
      OBVIOUS
    <2>5. /\ f \in Content /\ Len(f) = block /\ f[block] = c
          /\ \A i \in 1..(block - 1) : f[i] = file[target][i]
      <3>1. block \in Nat /\ Len(file[target]) < MaxBlocks /\ block - 1 = Len(file[target])
        BY <1>0, <2>2, <2>11 DEF Lengths
      <3>2. PICK s, b, k : s = file[target] /\ b = c /\ k = block
        OBVIOUS
      <3>3. s \in Content /\ b \in Block /\ k \in Nat /\ Len(s) < MaxBlocks /\ k - 1 = Len(s)
        BY <2>2, <2>11, <3>1, <3>2
      <3>4. f = WithBlock(s, k, b)
        BY <2>4, <3>2, Zenon
      <3>5. f \in Content /\ Len(f) = k /\ f[k] = b /\ \A i \in 1..(k - 1) : f[i] = s[i]
        BY <3>3, <3>4, Written
      <3> QED  BY <3>2, <3>5
    <2>6. file' = [file EXCEPT ![target] = f] /\ file'[target] = f
      BY <1>0, <2>3, <2>4 DEF WithBlock, TypeOK
    <2>7. TypeOK'
      BY <1>0, <2>1, <2>5, <2>6, <2>11 DEF TypeOK, Lengths
    <2>8. Agreement'
      <3>1. Copied = block - 1 /\ Copied' = block /\ 1..block = 1..(block - 1) \cup {block}
        BY <2>1, <2>11 DEF Copied, InHand
      <3> QED  BY <1>0, <2>1, <2>5, <2>6, <2>11, <3>1 DEF Agreement
    <2>9. Extent' /\ Measure'
      BY <1>0, <2>1, <2>2, <2>5, <2>6, NoContent DEF Extent, Measure, InHand, Lengths, TypeOK
    <2>10. Verdict' /\ Counting' /\ Stopping'
      BY <1>0, <2>1 DEF Verdict, Counting, Stopping, TypeOK
    <2> QED  BY <2>7, <2>8, <2>9, <2>10 DEF StreamInv
  <1>3. CASE CloseLocked
    <2>1. /\ pc = "close" /\ pc' = "open" /\ done' = 0 /\ attempt' \in 0..2
          /\ UNCHANGED <<env, setting, target, cursor, cancelled, result, history, failures>>
          /\ file' = [file EXCEPT ![target] = SubSeq(@, 1, start)]
      BY <1>0, <1>3 DEF CloseLocked, TypeOK
    <2>2. /\ file[target] \in Content /\ Len(file[target]) = block - 1 /\ start < block
          /\ start \in Nat /\ block \in Nat /\ start <= Len(file[target])
      BY <1>0, <2>1 DEF Extent, InHand, TypeOK, Lengths
    <2>3. /\ file' \in [Name -> Content \cup {Nothing}] /\ file'[target] \in Content
          /\ Len(file'[target]) = start
          /\ \A i \in 1..start : file'[target][i] = file[target][i]
      BY <1>0, <2>1, <2>2, CutBack
    <2>4. TypeOK'
      BY <1>0, <2>1, <2>3 DEF TypeOK, Lengths
    <2>5. Agreement'
      <3>1. Copied = block - 1 /\ Copied' = start /\ 1..start \subseteq 1..(block - 1) /\ start <= block - 1
        BY <2>1, <2>2 DEF Copied, InHand
      <3> QED  BY <1>0, <2>1, <2>2, <2>3, <3>1 DEF Agreement, Lengths
    <2>6. Extent' /\ Measure'
      BY <2>1, <2>3, NoContent DEF Extent, Measure, InHand
    <2>7. Verdict' /\ Counting' /\ Stopping'
      BY <1>0, <2>1 DEF Verdict, Counting, Stopping, TypeOK
    <2> QED  BY <2>4, <2>5, <2>6, <2>7 DEF StreamInv
  <1>4. CASE CloseFails
    <2>1. /\ pc = "close" /\ pc' \in {"over", "asking"} /\ done' = 0 /\ failures' \in 0..MaxFailures
          /\ result = "none" /\ result' = (IF cancelled THEN "failed" ELSE "none")
          /\ (pc' = "over" <=> cancelled)
          /\ UNCHANGED <<env, setting, target, cursor, attempt, cancelled, history>>
      BY <1>0, <1>4 DEF CloseFails, GiveUp, TypeOK
    <2>2. /\ file[target] \in Content /\ start \in Nat
      BY <1>0, <2>1 DEF Extent, InHand, TypeOK, Lengths
    <2>3. PICK n \in start..Len(file[target]) : file' = [file EXCEPT ![target] = SubSeq(@, 1, n)]
      BY <1>4 DEF CloseFails, GiveUp
    <2>4. n \in Nat /\ n <= Len(file[target])
      BY <2>2, <2>3, ContentIsSeq, LenProperties
    <2>5. file' \in [Name -> Content \cup {Nothing}]
      BY <1>0, <2>2, <2>3, <2>4, CutBack
    <2>6. TypeOK'
      BY <1>0, <2>1, <2>5 DEF TypeOK, Lengths
    <2>7. Agreement'
      <3>1. Copied' = 0 /\ src' \in Content
        BY <1>0, <2>1 DEF Copied, InHand
      <3> QED  BY <3>1, NothingCopied
    <2>8. Extent' /\ Measure'
      BY <2>1 DEF Extent, Measure, InHand
    <2>9. Verdict' /\ Counting' /\ Stopping'
      BY <1>0, <2>1 DEF Verdict, Counting, Stopping, TypeOK
    <2> QED  BY <2>6, <2>7, <2>8, <2>9 DEF StreamInv
  <1> QED  BY <1>1, <1>2, <1>3, <1>4

\* The changes of the source: they are never where the copy already agrees, or it is
\* said that the source was edited.
LEMMA WorldStep ==
  ASSUME StreamInv, Append1 \/ Shrink \/ Edit
  PROVE  StreamInv'
  <1> USE DEF Change
  <1>0. /\ TypeOK /\ Extent /\ Measure /\ Agreement /\ Verdict /\ Counting /\ Stopping
        /\ src \in Content /\ Len(src) \in Lengths /\ Len(src) \in Nat
        /\ src \in Seq(Block)
    BY ContentIsSeq DEF StreamInv, TypeOK, Lengths
  <1>1. /\ result = "none" /\ changes' \in 0..MaxChanges /\ touched' \in {"no", "shrunk", "edited"}
        /\ UNCHANGED <<setting, file, target, pc, cursor, attempt, done, cancelled, result, checked,
                       sure, late, mine, failures>>
    BY <1>0 DEF Append1, Shrink, Edit, TypeOK
  <1>2. src' \in Content
    <2>1. CASE Append1
      BY <1>0, <2>1, Changed DEF Append1
    <2>2. CASE Shrink
      <3>1. Len(src) # 0
        BY <1>0, <2>2, EmptySeq DEF Shrink
      <3>2. Len(src) - 1 \in 0..Len(src)
        BY <1>0, <3>1
      <3> QED  BY <1>0, <2>2, <3>2, Beginning DEF Shrink
    <2>3. CASE Edit
      BY <1>0, <2>3, Changed DEF Edit
    <2> QED  BY <2>1, <2>2, <2>3
  <1>3. TypeOK'
    BY <1>0, <1>1, <1>2 DEF TypeOK, setting, cursor
  <1>4. Copied' = Copied /\ Copied \in Nat
    BY <1>0, <1>1 DEF Copied, cursor, TypeOK, InHand, Lengths
  <1>5. Agreement'
    <2>1. CASE touched' = "edited"
      BY <2>1 DEF Agreement
    <2>2. CASE Append1 /\ touched' # "edited"
      <3>1. touched = "no" /\ touched' = "no" /\ src' = Append(src, -(Len(src) + 1))
        BY <2>2 DEF Append1
      <3>2. -(Len(src) + 1) \in Int
        BY <1>0
      <3>3. Len(src') = Len(src) + 1 /\ \A i \in 1..Len(src) : src'[i] = src[i]
        BY <1>0, <3>1, <3>2, AppendProperties
      <3> QED  BY <1>0, <1>1, <1>4, <3>1, <3>3 DEF Agreement
    <2>3. CASE Shrink /\ touched' # "edited"
      <3>1. touched # "edited" /\ touched' = "shrunk" /\ src' = SubSeq(src, 1, Len(src) - 1)
        BY <1>0, <2>3 DEF Shrink, TypeOK
      <3>2. Len(src) # 0
        BY <1>0, <2>3, EmptySeq DEF Shrink
      <3>3. Len(src) - 1 \in 0..Len(src)
        BY <1>0, <3>2
      <3>4. Len(src') = Len(src) - 1 /\ \A i \in 1..(Len(src) - 1) : src'[i] = src[i]
        BY <1>0, <3>1, <3>3, Beginning
      <3>5. ASSUME NEW i \in 1..Copied', i <= Len(src')
            PROVE  file'[target'][i] = src'[i]
        <4>1. i \in 1..Copied /\ i \in 1..(Len(src) - 1) /\ i <= Len(src)
          BY <1>0, <1>4, <3>4, <3>5
        <4>2. file[target][i] = src[i]
          BY <1>0, <3>1, <4>1 DEF Agreement
        <4> QED  BY <1>1, <3>4, <4>1, <4>2
      <3> QED  BY <3>1, <3>5 DEF Agreement
    <2>4. CASE Edit /\ touched' # "edited"
      BY <2>4 DEF Edit
    <2> QED  BY <2>1, <2>2, <2>3, <2>4
  <1>6. Extent' /\ Measure'
    BY <1>0, <1>1 DEF Extent, Measure, setting, cursor
  <1>7. Verdict' /\ Counting' /\ Stopping'
    BY <1>0, <1>1 DEF Verdict, Counting, Stopping, setting, cursor
  <1> QED  BY <1>3, <1>5, <1>6, <1>7 DEF StreamInv

LEMMA StreamStep == ASSUME StreamInv, [Next]_vars PROVE StreamInv'
  <1>1. CASE UNCHANGED vars
    BY <1>1 DEF vars, StreamInv, TypeOK, Extent, Measure, Agreement, Verdict, Counting, Stopping, Copied
  <1>2. CASE Next
    BY <1>2, DecidingStep, LoopStep, WritingStep, WorldStep DEF Next, Worker, World, Streaming
  <1> QED  BY <1>1, <1>2

LEMMA StreamAlways == Spec => []StreamInv
  BY StreamInit, StreamStep, PTL DEF Spec

-----------------------------------------------------------------------------
(* What a transfer of one file promises                                    *)

\* Every variable of transferFile() and streamCopy() has its type, for files of
\* any length.
THEOREM TypeCorrect == Spec => []TypeOK
  <1>1. StreamInv => TypeOK
    BY DEF StreamInv
  <1> QED  BY <1>1, StreamAlways, PTL

\* A transfer that reports success has written as many blocks as the source told, and
\* what streamCopy() last saw of the source, as far as it could see, over any number
\* of resumptions, retries and lock waits (transferFile(), prefixMatches()), whether the
\* provider asks for the size anew, remembers it or fails to tell it.
THEOREM DoneMeansWhole == Spec => []DoneIsWhole
  <1>1. StreamInv => DoneIsWhole
    BY DEF StreamInv, Verdict, DoneIsWhole
  <1> QED  BY <1>1, StreamAlways, PTL

\* The bytes of a finished transfer are in the progress once, and those of one that
\* failed not at all (the rollback of m_doneBytes in streamCopy()).
THEOREM ProgressIsTrue == Spec => []CountedOnce
  <1>1. StreamInv => CountedOnce
    BY DEF StreamInv, TypeOK, Counting, CountedOnce
  <1> QED  BY <1>1, StreamAlways, PTL

\* After a cancellation at most the block in hand is still written (the look at
\* m_cancelled at the top of the loop).
THEOREM StopsAtOnce == Spec => []CancelStops
  <1>1. StreamInv => CancelStops
    BY DEF StreamInv, Stopping, CancelStops
  <1> QED  BY <1>1, StreamAlways, PTL

=============================================================================
