--------------------------- MODULE Execution_proofs ---------------------------
(***************************************************************************)
(* The theorems about executions and the runtime guard: for any numbers of *)
(* calls and changes of the world, whatever the CLI writes.                *)
(***************************************************************************)
EXTENDS Execution, CliStream_proofs, TLAPS

-----------------------------------------------------------------------------
(* Verdicts                                                                 *)

(* What error_result and its variant for a result build is an error.        *)
LEMMA ErrorStatus ==
  ASSUME NEW e, NEW r
  PROVE  /\ Error(e, r).status = "ERROR"
         /\ \A result : ErrorOf(result, e, r).status = "ERROR"
  BY DEF Error, ErrorOf

(* _success_result delivers exactly what the review takes as delivered.     *)
LEMMA SuccessDelivers ==
  ASSUME NEW out, NEW mode, NEW expected \in BOOLEAN, out.result.status = "SUCCESS"
  PROVE  /\ SuccessResult(out, mode, expected).status \in {"SUCCESS", "ERROR"}
         /\ (SuccessResult(out, mode, expected).status = "SUCCESS")
              <=> Delivers(out.result, expected)
<1>1. CASE out.result.response \in {"null", "notstr"}
  <2>1. ~Delivers(out.result, expected)
    BY <1>1 DEF Delivers, Written
  <2> QED BY <1>1, <2>1, ErrorStatus DEF SuccessResult
<1>2. CASE out.result.response \notin {"null", "notstr"} /\ out.result.response \notin Written
  <2>1. ~Delivers(out.result, expected)
    BY <1>2 DEF Delivers, Written
  <2> QED BY <1>2, <2>1, ErrorStatus DEF SuccessResult
<1>3. CASE out.result.response \in Written /\ ~Delivers(out.result, expected)
  <2>1. out.result.response \notin {"null", "notstr"}
    BY <1>3 DEF Written
  <2> QED BY <1>3, <2>1, ErrorStatus DEF SuccessResult
<1>4. CASE out.result.response \in Written /\ Delivers(out.result, expected)
  <2>1. out.result.response \notin {"null", "notstr"}
    BY <1>4 DEF Written
  <2>2. AnswerOf(out.result).status = "SUCCESS"
    BY DEF AnswerOf
  <2> QED BY <1>4, <2>1, <2>2 DEF SuccessResult
<1>5. Delivers(out.result, expected) => out.result.response \in Written
  BY DEF Delivers, Written
<1> QED BY <1>1, <1>2, <1>3, <1>4, <1>5

(* The two judgements of a run agree.                                       *)
LEMMA JudgeAgrees ==
  ASSUME NEW out, NEW mode, NEW expected \in BOOLEAN, out.too_long => out.returncode = "none"
  PROVE  /\ Judge(out, mode, expected).status \in {"SUCCESS", "ERROR"}
         /\ (Judge(out, mode, expected).status = "SUCCESS") <=> ~FailedForReview(out, expected)
<1>1. CASE out.timed_out
  BY <1>1, ErrorStatus DEF Judge, FailedForReview
<1>2. CASE ~out.timed_out /\ out.returncode = "none"
  BY <1>2, ErrorStatus DEF Judge, FailedForReview
<1>3. CASE ~out.timed_out /\ out.returncode # "none" /\ out.output_limit
  BY <1>3, ErrorStatus DEF Judge, FailedForReview
<1>4. CASE ~out.timed_out /\ out.returncode # "none" /\ ~out.output_limit /\ out.returncode # "zero"
  BY <1>4, ErrorStatus DEF Judge, FailedForReview
<1>5. CASE ~out.timed_out /\ ~out.output_limit /\ out.returncode = "zero" /\ out.result = None
  BY <1>5, ErrorStatus DEF Judge, FailedForReview
<1>6. CASE /\ ~out.timed_out /\ ~out.output_limit /\ out.returncode = "zero"
           /\ out.result # None /\ out.result.status # "SUCCESS"
  BY <1>6, ErrorStatus DEF Judge, FailedForReview, Delivers
<1>7. CASE /\ ~out.timed_out /\ ~out.output_limit /\ out.returncode = "zero"
           /\ out.result # None /\ out.result.status = "SUCCESS"
  <2>1. Judge(out, mode, expected) = SuccessResult(out, mode, expected)
    BY <1>7 DEF Judge
  <2>2. FailedForReview(out, expected) <=> ~Delivers(out.result, expected)
    BY <1>7 DEF FailedForReview
  <2> QED BY <1>7, <2>1, <2>2, SuccessDelivers
<1> QED BY <1>1, <1>2, <1>3, <1>4, <1>5, <1>6, <1>7

(* A run ends in a success exactly when it passes the test for review.      *)
LEMMA EndsAgree ==
  ASSUME NEW end \in Ending \cup NoStart
  PROVE  /\ end.verdict.status \in {"SUCCESS", "ERROR"}
         /\ end.verdict.status = "SUCCESS" <=> ~end.failed
<1> DEFINE Agrees(e) == /\ e.verdict.status \in {"SUCCESS", "ERROR"}
                        /\ e.verdict.status = "SUCCESS" <=> ~e.failed
<1>1. ASSUME NEW out, NEW asked \in Asked, NEW meant, out.too_long => out.returncode = "none"
      PROVE  Agrees(End(out, asked, meant))
  <2>1. asked[2] \in BOOLEAN
    BY DEF Asked
  <2>2. /\ End(out, asked, meant).verdict = Judge(out, asked[1], asked[2])
        /\ End(out, asked, meant).failed = FailedForReview(out, asked[2])
    BY DEF End
  <2> QED BY <1>1, <2>1, <2>2, JudgeAgrees
<1>2. CASE end \in RunEnds
  <2>1. PICK code \in {"zero", "other"}, late \in BOOLEAN, stderr \in Diagnostics,
             o \in Outputs, asked \in Asked :
          end = End(CliRun(code, late, stderr, o.collected), asked, MeantBy(code, late, stderr, o))
    BY <1>2 DEF RunEnds
  <2>2. ~CliRun(code, late, stderr, o.collected).too_long
    BY DEF CliRun
  <2> QED BY <1>1, <2>1, <2>2
<1>3. CASE end \in ReaderFails
  <2>1. PICK code \in {"none", "zero", "other"}, late \in BOOLEAN, asked \in Asked :
          end = End(NoOutput(code, late), asked, Unclear)
    BY <1>3 DEF ReaderFails
  <2>2. ~NoOutput(code, late).too_long
    BY DEF NoOutput
  <2> QED BY <1>1, <2>1, <2>2
<1>4. CASE end \in NoStart
  <2>1. PICK out \in NotStarted, asked \in Asked :
          end = End(out, asked, Unclear)
    BY <1>4 DEF NoStart
  <2>2. out.returncode = "none"
    BY <2>1 DEF NotStarted, NoOutput, CommandTooLong
  <2> QED BY <1>1, <2>1, <2>2
<1> QED BY <1>2, <1>3, <1>4 DEF Ending

(* A run whose CLI did not start does not end in a success.                 *)
LEMMA NoStartFails ==
  ASSUME NEW end \in NoStart
  PROVE  end.verdict.status = "ERROR"
<1>1. PICK out \in NotStarted, asked \in Asked : end = End(out, asked, Unclear)
  BY DEF NoStart
<1>2. out.returncode = "none"
  BY <1>1 DEF NotStarted, NoOutput, CommandTooLong
<1>3. end.verdict = Judge(out, asked[1], asked[2])
  BY <1>1 DEF End
<1>4. FailedForReview(out, asked[2])
  BY <1>2 DEF FailedForReview
<1>5. asked[2] \in BOOLEAN
  BY <1>1 DEF Asked
<1> QED BY <1>2, <1>3, <1>4, <1>5, JudgeAgrees

-----------------------------------------------------------------------------
(* Classes                                                                  *)

(* The diagnosis is the first class, in their order, that is shown.         *)
LEMMA FirstShown ==
  ASSUME NEW said, NEW i \in 1 .. 7, Classes[i] \in Shown(said),
         \A j \in 1 .. i - 1 : Classes[j] \notin Shown(said)
  PROVE  Diagnosis(said) = Classes[i]
<1> DEFINE first == {k \in 1 .. Len(Classes) :
                       /\ Classes[k] \in Shown(said)
                       /\ \A j \in 1 .. k - 1 : Classes[j] \notin Shown(said)}
<1>1. Len(Classes) = 7
  BY DEF Classes
<1>2. i \in first
  BY <1>1
<1>3. ASSUME NEW k \in first PROVE k = i
  <2>1. k \in 1 .. 7 /\ Classes[k] \in Shown(said)
        /\ \A j \in 1 .. k - 1 : Classes[j] \notin Shown(said)
    BY <1>1
  <2>2. ~(k < i)
    BY <2>1
  <2>3. ~(i < k)
    BY <2>1
  <2> QED BY <2>1, <2>2, <2>3
<1>4. Diagnosis(said) = IF first = {} THEN "none" ELSE Classes[CHOOSE k \in first : TRUE]
  BY DEF Diagnosis
<1> HIDE DEF first
<1>5. (CHOOSE k \in first : TRUE) \in first
  BY <1>2
<1> QED BY <1>2, <1>3, <1>4, <1>5

(* Root causes are diagnosed first, then a denied tool.                     *)
LEMMA RootFirst ==
  ASSUME NEW said
  PROVE  /\ RootsShown(said) # {} => Diagnosis(said) \in RootsShown(said)
         /\ "permission" \in said =>
              Diagnosis(said) \in {"permission_denied"} \cup RootsShown(said)
<1> DEFINE S == Shown(said)
<1>1. /\ Classes[1] = "policy_denied" /\ Classes[2] = "profile_not_writable"
      /\ Classes[3] = "profile_unreadable" /\ Classes[4] = "network_denied"
      /\ Classes[5] = "permission_denied"
  BY DEF Classes
<1>2. "permission" \in said => "permission_denied" \in S
  BY DEF Shown, Signs
<1> HIDE DEF S
<1>3. CASE Classes[1] \in S
  BY <1>1, <1>3, FirstShown DEF RootsShown, RootCauses, S
<1>4. CASE Classes[1] \notin S /\ Classes[2] \in S
  <2>1. \A j \in 1 .. 2 - 1 : Classes[j] \notin S
    BY <1>4
  <2>2. Diagnosis(said) = Classes[2]
    BY <1>4, <2>1, FirstShown DEF S
  <2> QED BY <1>1, <1>4, <2>2 DEF RootsShown, RootCauses, S
<1>5. CASE Classes[1] \notin S /\ Classes[2] \notin S /\ Classes[3] \in S
  <2>1. \A j \in 1 .. 3 - 1 : Classes[j] \notin S
    BY <1>5
  <2>2. Diagnosis(said) = Classes[3]
    BY <1>5, <2>1, FirstShown DEF S
  <2> QED BY <1>1, <1>5, <2>2 DEF RootsShown, RootCauses, S
<1>6. CASE /\ Classes[1] \notin S /\ Classes[2] \notin S /\ Classes[3] \notin S
           /\ Classes[4] \in S
  <2>1. \A j \in 1 .. 4 - 1 : Classes[j] \notin S
    BY <1>6
  <2>2. Diagnosis(said) = Classes[4]
    BY <1>6, <2>1, FirstShown DEF S
  <2> QED BY <1>1, <1>6, <2>2 DEF RootsShown, RootCauses, S
<1>7. CASE /\ Classes[1] \notin S /\ Classes[2] \notin S /\ Classes[3] \notin S
           /\ Classes[4] \notin S
  <2>1. RootsShown(said) = {}
    BY <1>1, <1>7 DEF RootsShown, RootCauses, S
  <2>2. ASSUME "permission" \in said PROVE Diagnosis(said) = "permission_denied"
    <3>1. \A j \in 1 .. 5 - 1 : Classes[j] \notin S
      BY <1>7
    <3> QED BY <1>1, <1>2, <2>2, <3>1, FirstShown DEF S
  <2> QED BY <2>1, <2>2
<1> QED BY <1>3, <1>4, <1>5, <1>6, <1>7

(* More is shown of more that was said.                                     *)
LEMMA RootsGrow ==
  ASSUME NEW stderr, NEW result
  PROVE  /\ stderr \subseteq AllSaid(stderr, result)
         /\ RootsShown(stderr) \subseteq RootsShown(AllSaid(stderr, result))
<1>1. stderr \subseteq AllSaid(stderr, result)
  BY DEF AllSaid
<1>2. ASSUME NEW class \in RootsShown(stderr)
      PROVE  class \in RootsShown(AllSaid(stderr, result))
  <2>1. /\ class \in DOMAIN Signs /\ Signs[class] \subseteq stderr /\ class \in RootCauses
        /\ class \notin {"oauth_timeout", "auth_missing"}
    BY <1>2 DEF RootsShown, Shown, RootCauses
  <2> QED BY <1>1, <2>1 DEF RootsShown, Shown
<1> QED BY <1>1, <1>2

(* A root cause in stderr stands, and so does a denied tool unless the CLI  *)
(* names an error of its own.                                               *)
LEMMA ClassKept ==
  ASSUME NEW stderr, NEW result
  PROVE  /\ RootsShown(stderr) # {}
              => Class(stderr, result) \in RootsShown(AllSaid(stderr, result))
         /\ "permission" \in stderr
            /\ ~(result # None /\ result.error \notin Generic \cup {"none"})
              => Class(stderr, result)
                   \in {"permission_denied"} \cup RootsShown(AllSaid(stderr, result))
<1> DEFINE seen == Diagnosis(stderr)
           all == AllSaid(stderr, result)
<1>1. /\ RootsShown(stderr) # {} => seen \in RootsShown(stderr)
      /\ "permission" \in stderr => seen \in {"permission_denied"} \cup RootsShown(stderr)
      /\ RootsShown(all) # {} => Diagnosis(all) \in RootsShown(all)
      /\ "permission" \in all => Diagnosis(all) \in {"permission_denied"} \cup RootsShown(all)
  BY RootFirst
<1>2. stderr \subseteq all /\ RootsShown(stderr) \subseteq RootsShown(all)
  BY RootsGrow
<1>3. /\ RootsShown(stderr) \subseteq RootCauses
      /\ "none" \notin {"permission_denied"} \cup RootsShown(stderr)
  BY DEF RootsShown, RootCauses
<1>4. Class(stderr, result) =
        IF result = None THEN seen
        ELSE IF result.error = "none" THEN Diagnosis(all)
        ELSE IF seen \in RootCauses \/ (result.error \in Generic /\ seen # "none") THEN seen
        ELSE result.error
  BY DEF Class, AllSaid
<1> HIDE DEF seen, all
<1>5. CASE result = None
  BY <1>1, <1>2, <1>4, <1>5 DEF all
<1>6. CASE result # None /\ result.error = "none"
  BY <1>1, <1>2, <1>4, <1>6 DEF all
<1>7. CASE result # None /\ result.error # "none"
  BY <1>1, <1>2, <1>3, <1>4, <1>7 DEF all
<1> QED BY <1>5, <1>6, <1>7

(* What an ended run calls for is the class that the code finds.            *)
LEMMA CalledForClass ==
  ASSUME NEW out, CalledFor(out) # {}
  PROVE  /\ Class(out.stderr, out.result) \in CalledFor(out)
         /\ CalledFor(out) \cap (OfContent \cup {"none"}) = {}
         /\ Unanswered(out) /\ ~out.output_limit /\ out.stderr # {}
<1> DEFINE named == out.result # None /\ out.result.error \notin Generic \cup {"none"}
           roots == RootsShown(AllSaid(out.stderr, out.result))
<1>1. /\ CalledFor(out) = IF ~Unanswered(out) \/ out.output_limit THEN {}
                          ELSE IF RootsShown(out.stderr) # {} THEN roots
                          ELSE IF "permission" \in out.stderr /\ ~named
                          THEN {"permission_denied"} \cup roots ELSE {}
      /\ roots \subseteq RootCauses
  BY DEF CalledFor, RootsShown
<1>2. /\ RootsShown(out.stderr) # {} => Class(out.stderr, out.result) \in roots
      /\ "permission" \in out.stderr /\ ~named
           => Class(out.stderr, out.result) \in {"permission_denied"} \cup roots
  BY ClassKept
<1>3. RootsShown({}) = {}
  BY DEF RootsShown, Shown, RootCauses, Signs
<1>4. ({"permission_denied"} \cup RootCauses) \cap (OfContent \cup {"none"}) = {}
  BY DEF RootCauses, OfContent, Generic
<1> HIDE DEF named, roots
<1>5. out.stderr = {} => RootsShown(out.stderr) = {} /\ "permission" \notin out.stderr
  BY <1>3
<1> QED BY <1>1, <1>2, <1>4, <1>5

(* Every return of the execution's end keeps such a class.                  *)
LEMMA JudgeKeeps ==
  ASSUME NEW out, NEW mode, NEW expected, out.returncode = "none" => out.stderr = {},
         CalledFor(out) # {}
  PROVE  Judge(out, mode, expected).error \in CalledFor(out)
<1> DEFINE class == Class(out.stderr, out.result)
<1>1. /\ class \in CalledFor(out) /\ class \notin OfContent /\ class # "none"
      /\ Unanswered(out) /\ ~out.output_limit /\ out.returncode # "none"
  BY CalledForClass
<1>2. /\ \A default : Or(class, default) = class
      /\ Unless(class, OfContent) = class
  BY <1>1 DEF Or, Unless
<1>3. CASE out.timed_out
  BY <1>1, <1>2, <1>3 DEF Judge, Error
<1>4. CASE ~out.timed_out /\ out.returncode # "zero"
  BY <1>1, <1>2, <1>4 DEF Judge, Error
<1>5. CASE /\ ~out.timed_out /\ out.returncode = "zero"
           /\ out.result = None \/ out.result.status # "SUCCESS"
  BY <1>1, <1>2, <1>5 DEF Judge, Error
<1>6. CASE /\ ~out.timed_out /\ out.returncode = "zero" /\ out.result # None
           /\ out.result.status = "SUCCESS"
  <2>1. Judge(out, mode, expected) = SuccessResult(out, mode, expected)
    BY <1>1, <1>6 DEF Judge
  <2>2. out.result.response \in {"absent", "blank"}
    BY <1>1, <1>6 DEF Unanswered
  <2>3. out.result.response \notin {"null", "notstr"} /\ out.result.response \notin Written
    BY <2>2 DEF Written
  <2>4. SuccessResult(out, mode, expected).error = class
    BY <1>1, <1>2, <2>3 DEF SuccessResult, ErrorOf, Error
  <2> QED BY <1>1, <2>1, <2>4
<1> QED BY <1>3, <1>4, <1>5, <1>6

(* Every end names the error that its diagnostics call for.                 *)
LEMMA EndsKeep ==
  ASSUME NEW end \in Ending \cup NoStart, end.calls # {}
  PROVE  end.verdict.error \in end.calls
<1>1. ASSUME NEW out, NEW asked, NEW meant, out.returncode = "none" => out.stderr = {},
             end = End(out, asked, meant)
      PROVE  end.verdict.error \in end.calls
  <2>1. end.verdict = Judge(out, asked[1], asked[2]) /\ end.calls = CalledFor(out)
    BY <1>1 DEF End
  <2> QED BY <1>1, <2>1, JudgeKeeps
<1>2. CASE end \in RunEnds
  <2>1. PICK code \in {"zero", "other"}, late \in BOOLEAN, stderr \in Diagnostics,
             o \in Outputs, asked \in Asked :
          end = End(CliRun(code, late, stderr, o.collected), asked, MeantBy(code, late, stderr, o))
    BY <1>2 DEF RunEnds
  <2>2. CliRun(code, late, stderr, o.collected).returncode # "none"
    BY <2>1 DEF CliRun
  <2> QED BY <1>1, <2>1, <2>2
<1>3. CASE end \in ReaderFails
  <2>1. PICK code \in {"none", "zero", "other"}, late \in BOOLEAN, asked \in Asked :
          end = End(NoOutput(code, late), asked, Unclear)
    BY <1>3 DEF ReaderFails
  <2>2. NoOutput(code, late).stderr = {}
    BY DEF NoOutput
  <2> QED BY <1>1, <2>1, <2>2
<1>4. CASE end \in NoStart
  <2>1. PICK out \in NotStarted, asked \in Asked :
          end = End(out, asked, Unclear)
    BY <1>4 DEF NoStart
  <2>2. out.stderr = {}
    BY <2>1 DEF NotStarted, NoOutput, CommandTooLong
  <2> QED BY <1>1, <2>1, <2>2
<1> QED BY <1>2, <1>3, <1>4 DEF Ending

-----------------------------------------------------------------------------
(* Answers                                                                  *)

(* Of nothing that was said there is no diagnosis.                          *)
LEMMA NothingShown == Diagnosis({}) = "none"
<1>1. Shown({}) = {}
  BY DEF Shown, Signs
<1> QED BY <1>1 DEF Diagnosis

(* What an end was meant to answer, and what it answers.                    *)
AsMeant(end) ==
  LET delivered == end.meant.text \in IF end.expected THEN {"marked"} ELSE Written
  IN /\ delivered => /\ end.verdict.status = "SUCCESS"
                     /\ end.verdict.text = end.meant.text
                     /\ end.verdict.conversation = end.meant.conversation
     /\ end.meant # Unclear /\ ~delivered => end.verdict.status = "ERROR"
     /\ ~delivered /\ end.meant.text = "none" /\ end.meant.error # "any"
          => end.verdict.error = end.meant.error

(* Where more than the stream decides, nothing is claimed.                  *)
LEMMA UnclearMeans ==
  ASSUME NEW end, end.meant = Unclear
  PROVE  AsMeant(end)
<1>1. end.meant.text = "unclear"
  BY DEF Unclear, NoText
<1>2. "unclear" \notin Written /\ "unclear" \notin {"marked"} /\ "unclear" # "none"
  BY DEF Written
<1> QED BY <1>1, <1>2 DEF AsMeant

(* A run that ended well with a text is a success if the text will do.      *)
LEMMA TextJudged ==
  ASSUME NEW out, NEW mode, NEW expected \in BOOLEAN,
         ~out.timed_out, out.returncode = "zero", ~out.output_limit,
         out.result # None, out.result.status = "SUCCESS", out.result.response \in Written
  PROVE  LET verdict == Judge(out, mode, expected)
         IN IF out.result.response \in IF expected THEN {"marked"} ELSE Written
            THEN /\ verdict.status = "SUCCESS" /\ verdict.text = out.result.response
                 /\ verdict.conversation = out.result.conversation
            ELSE verdict.status = "ERROR"
<1>1. Judge(out, mode, expected) = SuccessResult(out, mode, expected)
  BY DEF Judge
<1>2. out.result.response \notin {"null", "notstr"}
  BY DEF Written
<1>3. SuccessResult(out, mode, expected) =
        IF Delivers(out.result, expected) THEN AnswerOf(out.result)
        ELSE ErrorOf(out.result, "verification_failed", FALSE)
  BY <1>2 DEF SuccessResult
<1>4. CASE Delivers(out.result, expected)
  <2>1. Judge(out, mode, expected) = AnswerOf(out.result)
    BY <1>1, <1>3, <1>4
  <2>2. out.result.response \in IF expected THEN {"marked"} ELSE Written
    BY <1>4 DEF Delivers
  <2> QED BY <2>1, <2>2 DEF AnswerOf
<1>5. CASE ~Delivers(out.result, expected)
  <2>1. Judge(out, mode, expected) = ErrorOf(out.result, "verification_failed", FALSE)
    BY <1>1, <1>3, <1>5
  <2>2. ~(out.result.response \in IF expected THEN {"marked"} ELSE Written)
    BY <1>5 DEF Delivers
  <2> QED BY <2>1, <2>2 DEF ErrorOf, Error
<1> QED BY <1>4, <1>5

(* A run that ended well without a text, of which stderr says nothing, is   *)
(* an error: the CLI's own where it names one.                              *)
LEMMA NoTextJudged ==
  ASSUME NEW out, NEW mode, NEW expected \in BOOLEAN,
         ~out.timed_out, out.returncode = "zero", out.stderr = {},
         ~out.output_limit => out.result # None,
         ~out.output_limit /\ out.result.status = "SUCCESS" => out.result.response \notin Written
  PROVE  LET verdict == Judge(out, mode, expected)
         IN /\ verdict.status = "ERROR"
            /\ out.output_limit => verdict.error = "output_limit"
            /\ ~out.output_limit /\ out.result.status # "SUCCESS"
               /\ out.result.error # "none" => verdict.error = out.result.error
            /\ ~out.output_limit /\ out.result.status = "SUCCESS"
               /\ out.result.response = "notstr" => verdict.error = "content_parse_failed"
<1> DEFINE verdict == Judge(out, mode, expected)
<1>1. out.result # None /\ out.result.error # "none"
        => Class(out.stderr, out.result) = out.result.error
  BY NothingShown DEF Class, RootCauses
<1>2. CASE out.output_limit
  <2>1. verdict = Error("output_limit", FALSE)
    BY <1>2 DEF Judge
  <2> QED BY <1>2, <2>1 DEF Error
<1>3. CASE ~out.output_limit /\ out.result.status # "SUCCESS"
  <2>1. verdict.status = "ERROR"
        /\ verdict.error = Or(Class(out.stderr, out.result), "cli_error")
    BY <1>3 DEF Judge, Error
  <2> QED BY <1>1, <1>3, <2>1 DEF Or
<1>4. CASE ~out.output_limit /\ out.result.status = "SUCCESS"
  <2>1. verdict = SuccessResult(out, mode, expected)
    BY <1>4 DEF Judge
  <2>2. out.result.response \notin Written
    BY <1>4
  <2>3. verdict.status = "ERROR"
    <3> DEFINE class == Unless(Class(out.stderr, out.result), OfContent)
               content == ContentClass(out)
    <3>1. verdict \in {ErrorOf(out.result, "content_parse_failed", FALSE),
                      ErrorOf(out.result, class, FALSE),
                      ErrorOf(out.result, content, Retryable(content, mode))}
      BY <2>1, <2>2 DEF SuccessResult
    <3>2. \A e, r : ErrorOf(out.result, e, r).status = "ERROR"
      BY DEF ErrorOf, Error
    <3> HIDE DEF verdict, class, content
    <3> QED BY <3>1, <3>2
  <2>4. out.result.response = "notstr" => verdict.error = "content_parse_failed"
    BY <2>1 DEF SuccessResult, ErrorOf, Error
  <2> QED BY <1>4, <2>3, <2>4
<1> QED BY <1>2, <1>3, <1>4

(* Every end answers what the stream means, where the stream decides.       *)
LEMMA EndsAsMeant ==
  ASSUME NEW end \in Ending \cup NoStart
  PROVE  AsMeant(end)
<1>1. CASE end \in RunEnds
  <2>1. PICK code \in {"zero", "other"}, late \in BOOLEAN, stderr \in Diagnostics,
             o \in Outputs, asked \in Asked :
          end = End(CliRun(code, late, stderr, o.collected), asked, MeantBy(code, late, stderr, o))
    BY <1>1 DEF RunEnds
  <2> DEFINE out == CliRun(code, late, stderr, o.collected)
             mode == asked[1]
             expected == asked[2]
  <2>2. PICK s \in Streams : o = [collected |-> Collected(s), meant |-> Meant(s)]
    BY <2>1 DEF Outputs
  <2>3. Faithful(o.collected, o.meant)
    <3>1. PICK n \in 0 .. MaxEvents : s \in [1 .. n -> Event]
      BY DEF Streams
    <3>2. n \in Nat /\ s \in [1 .. n -> Line]
      BY <3>1, BoundsAssumption, EventAssumption
    <3>3. s \in Seq(Line)
      BY <3>2, SeqDef
    <3> QED BY <2>2, <3>3, CollectedMeans
  <2>4. expected \in BOOLEAN
    BY DEF Asked
  <2>5. /\ end.verdict = Judge(out, mode, expected) /\ end.expected = expected
        /\ end.meant = MeantBy(code, late, stderr, o)
    BY <2>1 DEF End
  <2>6. CASE ~(code = "zero" /\ ~late /\ (stderr = {} \/ o.meant.text # "none"))
    BY <2>5, <2>6, UnclearMeans DEF MeantBy
  <2>7. CASE code = "zero" /\ ~late /\ (stderr = {} \/ o.meant.text # "none")
    <3>1. end.meant = o.meant
      BY <2>5, <2>7 DEF MeantBy
    <3>2. /\ ~out.timed_out /\ out.returncode = "zero"
          /\ out.output_limit <=> o.collected.exceeded
          /\ out.result = o.collected.result
          /\ stderr = {} => out.stderr = {}
      BY <2>7 DEF CliRun
    <3> HIDE DEF out, mode, expected
    <3>3. CASE o.meant.text \in Written
      <4>1. /\ ~out.output_limit /\ out.result # None /\ out.result.status = "SUCCESS"
            /\ out.result.response = o.meant.text
            /\ out.result.conversation = o.meant.conversation
        BY <2>3, <3>2, <3>3 DEF Faithful
      <4>2. o.meant.text # "none"
        BY <3>3 DEF Written
      <4> QED BY <2>4, <2>5, <3>1, <3>2, <3>3, <4>1, <4>2, TextJudged DEF AsMeant
    <3>4. CASE o.meant.text \notin Written
      <4>1. /\ o.meant.text = "none" /\ out.stderr = {}
            /\ out.output_limit => o.meant.error = "output_limit"
            /\ ~out.output_limit => out.result # None
            /\ ~out.output_limit /\ out.result.status # "SUCCESS"
                 => o.meant.error = IF out.result.error = "none" THEN "any" ELSE out.result.error
            /\ ~out.output_limit /\ out.result.status = "SUCCESS"
                 => /\ out.result.response \notin Written
                    /\ o.meant.error = IF out.result.response = "notstr"
                                         THEN "content_parse_failed" ELSE "any"
        BY <2>3, <2>7, <3>2, <3>4 DEF Faithful
      <4>2. LET verdict == Judge(out, mode, expected)
            IN /\ verdict.status = "ERROR"
               /\ out.output_limit => verdict.error = "output_limit"
               /\ ~out.output_limit /\ out.result.status # "SUCCESS"
                  /\ out.result.error # "none" => verdict.error = out.result.error
               /\ ~out.output_limit /\ out.result.status = "SUCCESS"
                  /\ out.result.response = "notstr" => verdict.error = "content_parse_failed"
        BY <2>4, <3>2, <4>1, NoTextJudged
      <4>3. "none" \notin {"marked"} /\ "none" \notin Written
        BY DEF Written
      <4> QED BY <2>5, <3>1, <4>1, <4>2, <4>3 DEF AsMeant
    <3> QED BY <3>3, <3>4
  <2> QED BY <2>6, <2>7
<1>2. CASE end \in ReaderFails \cup NoStart
  <2>1. end.meant = Unclear
    BY <1>2 DEF ReaderFails, NoStart, End
  <2> QED BY <2>1, UnclearMeans
<1> QED BY <1>1, <1>2 DEF Ending

-----------------------------------------------------------------------------
(* The inductive invariant                                                  *)

Present == Capture(world, Resolve(world), world.at[Resolve(world)].version, TRUE)

(* A file that a path held, and that it will never hold again.              *)
Gone(path, file) ==
  /\ path \in ToSet(Paths) /\ file \in 0 .. changes
  /\ world.at[path] # NoFile => world.at[path].file # file

CallTyped(c) ==
  /\ DOMAIN call[c] = DOMAIN Blank
  /\ call[c].since \in Unsure .. changes
  /\ pc[c] \in Awaiting => call[c].cli \in ToSet(Paths)
  /\ pc[c] \in {"capturing", "recapturing"} => call[c].version \in Version \cup {NoFile}
  /\ pc[c] \in {"guarding", "reguarding", "abandoned"} => call[c].seen \in Identities
  /\ pc[c] \in After => call[c].before \in Identities
  /\ pc[c] \in Before \cup {"admission"} => call[c].ran = NoFile
  /\ pc[c] = "done" => call[c].answer.status \in {"SUCCESS", "ERROR", "CHECKED"}

(* A call that began in the present world, with no probe of it failed, has  *)
(* seen nothing but the present.                                            *)
Current(c) ==
  call[c].since = changes =>
    /\ pc[c] \in Awaiting => call[c].cli = Resolve(world) /\ Resolve(world) # NoFile
    /\ pc[c] \in {"capturing", "recapturing"} => call[c].version = world.at[call[c].cli].version
    /\ pc[c] \in {"guarding", "reguarding", "abandoned"} => call[c].seen = Present
    /\ pc[c] \in After => call[c].before = Present

(* The file that ran, if any did, is the one seen before the run, or that   *)
(* one is gone for good and will not be seen after the run.                 *)
Provenance(c) ==
  LET before == call[c].before
      seen == call[c].seen
  IN /\ pc[c] = "guarding" /\ seen.state = "ready"
          => seen.path = call[c].cli /\ seen.binary \in 0 .. changes
     /\ pc[c] \in After /\ before.state = "ready" =>
          /\ before.path \in ToSet(Paths) /\ before.binary \in 0 .. changes
          /\ IF pc[c] = "admission" THEN before.path = call[c].cli
             ELSE call[c].ran \in {NoFile, before.binary} \/ Gone(before.path, before.binary)
     /\ pc[c] = "reguarding" /\ before.state = "ready" /\ seen.state = "ready"
          /\ seen.path = before.path /\ seen.binary = before.binary
          => call[c].ran \in {NoFile, before.binary}

(* What an answer claims, while the baseline that it was given under stays. *)
AnswerHolds(c) ==
  Answered(c) =>
    /\ call[c].answer.status = "SUCCESS" =>
         /\ baseline # NoFile
         /\ baseline.state = "ready" => call[c].ran = baseline.binary
    /\ ~Judged(c) /\ call[c].answer.error = "stale_runtime_snapshot" =>
         /\ baseline # NoFile
         /\ changes > call[c].since \/ changes > pinned
    /\ Judged(c) => (call[c].answer.status = "SUCCESS" <=> ~call[c].end.failed)
    /\ Judged(c) /\ call[c].end.calls # {} => call[c].answer.error \in call[c].end.calls
    /\ Judged(c) => call[c].answer = call[c].end.verdict /\ AsMeant(call[c].end)

CallInv(c) == CallTyped(c) /\ Current(c) /\ Provenance(c) /\ AnswerHolds(c)

WorldInv ==
  /\ pc \in [Call -> Awaiting \cup {"idle", "abandoned", "done"}]
  /\ DOMAIN call = Call
  /\ world \in [at : [ToSet(Paths) -> Binaries \cup {NoFile}], package : Package]
  /\ changes \in 0 .. MaxChanges
  /\ baseline \in Identities \cup {NoFile}
  /\ pinned \in Unsure .. changes
  /\ pinned = changes => baseline = Present

IInv == WorldInv /\ \A c \in Call : CallInv(c)

-----------------------------------------------------------------------------
(* The runtime                                                              *)

(* What is resolved is there.                                               *)
LEMMA ResolvedThere ==
  ASSUME NEW w, Resolve(w) # NoFile
  PROVE  Resolve(w) \in ToSet(Paths) /\ w.at[Resolve(w)] # NoFile
  BY DEF Resolve, ToSet

(* A captured identity is what the world had at the path.                   *)
LEMMA CapturedIdentity ==
  ASSUME WorldInv, NEW p \in ToSet(Paths), NEW v \in Version \cup {NoFile},
         NEW readable \in BOOLEAN
  PROVE  LET seen == Capture(world, p, v, readable)
         IN /\ seen \in Identities
            /\ seen.state = "ready" =>
                 /\ world.at[p] # NoFile
                 /\ seen.path = p /\ seen.binary = world.at[p].file
                 /\ seen.binary \in 0 .. changes
  BY DEF WorldInv, Capture, Identity, Identities, Binaries

(* Observations of the same file, by the same version, do not differ.       *)
LEMMA SameNoDrift ==
  ASSUME NEW seen
  PROVE  Drift(seen, seen) = {}
  BY DEF Drift

(* Two identities without drift are of the same binary at the same path.    *)
LEMMA NoDriftSame ==
  ASSUME NEW a \in Identities, NEW b \in Identities, Drift(a, b) = {}
  PROVE  /\ a.state = b.state
         /\ a.state = "ready" => a.path = b.path /\ a.binary = b.binary
  BY DEF Drift, Identities

-----------------------------------------------------------------------------
(* The invariant holds the properties.                                      *)
LEMMA InvariantImplies ==
  ASSUME IInv
  PROVE  TypeOK /\ SuccessOnPinnedRuntime /\ StaleExplained /\ ReviewAgrees /\ AnswerIsReference
         /\ RootCauseKept
<1>1. TypeOK
  BY DEF IInv, WorldInv, CallInv, CallTyped, TypeOK
<1>2. SuccessOnPinnedRuntime /\ StaleExplained /\ ReviewAgrees /\ RootCauseKept
  BY DEF IInv, CallInv, AnswerHolds, SuccessOnPinnedRuntime, StaleExplained, ReviewAgrees,
         RootCauseKept, Judged
<1>3. AnswerIsReference
  BY DEF IInv, CallInv, AnswerHolds, AnswerIsReference, AsMeant, Judged
<1> QED BY <1>1, <1>2, <1>3

-----------------------------------------------------------------------------
(* Steps                                                                    *)

Places == Awaiting \cup {"idle", "abandoned", "done"}

(* A server that has just started satisfies the invariant.                  *)
LEMMA InitIInv == Init => IInv
<1> SUFFICES ASSUME Init PROVE IInv
  OBVIOUS
<1>1. WorldInv
  <2>1. 0 \in 0 .. MaxChanges /\ Unsure \in Unsure .. 0 /\ Unsure # 0
    BY BoundsAssumption DEF Unsure
  <2>2. world \in [at : [ToSet(Paths) -> Binaries \cup {NoFile}], package : Package]
    BY <2>1 DEF Init, Binaries
  <2> QED BY <2>1, <2>2 DEF Init, WorldInv
<1>2. ASSUME NEW c \in Call PROVE CallInv(c)
  <2>1. pc[c] = "idle" /\ call[c] = Blank /\ changes = 0
    BY DEF Init
  <2>2. CallTyped(c)
    BY <2>1 DEF CallTyped, Blank, Unsure, Awaiting, Before, After
  <2>3. Current(c)
    BY <2>1 DEF Current, Blank, Unsure
  <2>4. Provenance(c) /\ AnswerHolds(c)
    BY <2>1 DEF Provenance, AnswerHolds, Answered, After
  <2> QED BY <2>2, <2>3, <2>4 DEF CallInv
<1> QED BY <1>1, <1>2 DEF IInv

(* What the guard pins is what the call has seen, or was pinned before.     *)
LEMMA PinKeeps ==
  ASSUME IInv, NEW c \in Call, pc[c] \in {"guarding", "reguarding", "abandoned"}, Pin(c),
         UNCHANGED <<world, changes>>
  PROVE  /\ baseline' \in Identities /\ baseline' # NoFile
         /\ pinned' \in Unsure .. changes
         /\ pinned' = changes => baseline' = Present
         /\ baseline # NoFile => UNCHANGED <<baseline, pinned>>
<1>1. CallTyped(c) /\ Current(c) /\ WorldInv
  BY DEF IInv, CallInv
<1>2. CASE baseline = NoFile
  <2>1. baseline' = call[c].seen /\ pinned' = call[c].since
    BY <1>2 DEF Pin, Pinned
  <2> QED BY <1>1, <1>2, <2>1, IdentityAssumption DEF CallTyped, Current
<1>3. CASE baseline # NoFile
  <2>1. baseline' = baseline /\ pinned' = pinned
    BY <1>3 DEF Pin, Pinned
  <2> QED BY <1>1, <1>3, <2>1, IdentityAssumption DEF WorldInv
<1> QED BY <1>2, <1>3

(* A step of one call leaves what is known of the others.                   *)
LEMMA CallStep ==
  ASSUME IInv, NEW c \in Call, NEW place \in Places, NEW known, Goto(c, place, known),
         UNCHANGED <<world, changes>>,
         baseline # NoFile => UNCHANGED <<baseline, pinned>>,
         baseline' \in Identities \cup {NoFile}, pinned' \in Unsure .. changes,
         pinned' = changes => baseline' = Present,
         pc'[c] = place /\ call'[c] = known => CallInv(c)'
  PROVE  IInv'
<1>1. pc'[c] = place /\ call'[c] = known
  BY DEF IInv, WorldInv, Goto
<1>2. WorldInv'
  <2>1. Present' = Present
    BY DEF Present
  <2>2. Binaries' = Binaries
    BY DEF Binaries
  <2> QED BY <2>1, <2>2 DEF IInv, WorldInv, Goto, Places
<1>3. ASSUME NEW d \in Call, d # c PROVE CallInv(d)'
  <2>1. pc'[d] = pc[d] /\ call'[d] = call[d] /\ CallInv(d)
    BY <1>3 DEF IInv, WorldInv, Goto
  <2>2. CallTyped(d)'
    BY <2>1 DEF CallInv, CallTyped
  <2>3. Current(d)' /\ Provenance(d)'
    BY <2>1 DEF CallInv, Current, Present, Provenance, Gone
  <2>4. AnswerHolds(d)'
    BY <2>1 DEF CallInv, AnswerHolds, Answered, Judged
  <2> QED BY <2>2, <2>3, <2>4 DEF CallInv
<1> QED BY <1>1, <1>2, <1>3 DEF IInv

(* The same, of a step that leaves the guard alone.                         *)
LEMMA QuietStep ==
  ASSUME IInv, NEW c \in Call, NEW place \in Places, NEW known, Goto(c, place, known),
         UNCHANGED <<world, changes, baseline, pinned>>,
         pc'[c] = place /\ call'[c] = known => CallInv(c)'
  PROVE  IInv'
<1>1. /\ baseline' \in Identities \cup {NoFile} /\ pinned' \in Unsure .. changes
      /\ pinned' = changes => baseline' = Present
  BY DEF IInv, WorldInv
<1> QED BY <1>1, CallStep

(* Calls that are not under way, or that have been answered with an error.  *)
LEMMA BlankCall ==
  ASSUME WorldInv, NEW c, pc'[c] = "idle", call'[c] = Blank, changes' = changes
  PROVE  CallInv(c)'
<1>1. changes \in Nat
  BY BoundsAssumption DEF WorldInv
<1>2. CallTyped(c)' /\ Current(c)'
  BY <1>1 DEF CallTyped, Current, Blank, Unsure, Awaiting, Before, After
<1>3. Provenance(c)' /\ AnswerHolds(c)'
  BY DEF Provenance, AnswerHolds, Answered, After
<1> QED BY <1>2, <1>3 DEF CallInv

(* A call that ends in an error other than a stale runtime claims nothing.  *)
LEMMA ErrorCall ==
  ASSUME WorldInv, NEW c, NEW answer, answer.status \in {"ERROR", "CHECKED"},
         answer.error # "stale_runtime_snapshot", changes' = changes,
         pc'[c] = "done", call'[c] = [Blank EXCEPT !.answer = answer]
  PROVE  CallInv(c)'
<1>1. changes \in Nat
  BY BoundsAssumption DEF WorldInv
<1>2. call'[c].answer = answer /\ call'[c].end = None /\ call'[c].since = Unsure
      /\ DOMAIN call'[c] = DOMAIN Blank
  BY DEF Blank
<1>3. CallTyped(c)' /\ Current(c)'
  BY <1>1, <1>2 DEF CallTyped, Current, Unsure, Awaiting, Before, After
<1>4. Provenance(c)'
  BY DEF Provenance, After
<1>5. AnswerHolds(c)'
  BY <1>2 DEF AnswerHolds, Answered, Judged
<1> QED BY <1>3, <1>4, <1>5 DEF CallInv

(* A call that is told of a stale runtime has a change to show for it.      *)
LEMMA StaleCall ==
  ASSUME IInv, NEW c \in Call, AnswerStale(c), changes' = changes,
         baseline' # NoFile, changes > call[c].since \/ changes > pinned'
  PROVE  CallInv(c)'
<1>1. /\ pc'[c] = "done"
      /\ call'[c] = [Blank EXCEPT !.answer = Error("stale_runtime_snapshot", FALSE),
                                  !.since = call[c].since]
  BY DEF IInv, WorldInv, AnswerStale, Goto
<1>2. call'[c].answer.status = "ERROR" /\ call'[c].end = None
      /\ call'[c].since = call[c].since /\ DOMAIN call'[c] = DOMAIN Blank
  BY <1>1 DEF Blank, Error
<1>3. CallTyped(c)' /\ Current(c)'
  BY <1>1, <1>2 DEF IInv, CallInv, CallTyped, Current, Awaiting, Before, After
<1>4. Provenance(c)'
  BY <1>1 DEF Provenance, After
<1>5. AnswerHolds(c)'
  BY <1>2 DEF AnswerHolds, Answered, Judged
<1> QED BY <1>3, <1>4, <1>5 DEF CallInv

-----------------------------------------------------------------------------
(* The doctor answers a check, and never in the name of the guard.          *)
LEMMA DoctorVerdicts ==
  ASSUME NEW available, NEW troubles
  PROVE  /\ DoctorVerdict(available, troubles).status = "CHECKED"
         /\ DoctorVerdict(available, troubles).error # "stale_runtime_snapshot"
  BY DEF DoctorVerdict, Checked, Error

(* Resolving the CLI keeps the invariant.                                   *)
LEMMA BeginKeeps ==
  ASSUME IInv, NEW c \in Call, Begin(c)
  PROVE  IInv'
<1> USE DEF Places, Awaiting, Before, After
<1>1. WorldInv /\ changes \in Nat
  BY BoundsAssumption DEF IInv, WorldInv
<1>2. CASE Resolve(world) # NoFile
  <2> DEFINE known == [Blank EXCEPT !.cli = Resolve(world), !.since = changes]
  <2>1. Goto(c, "probing", known)
    BY <1>2 DEF Begin
  <2>2. /\ known.cli = Resolve(world) /\ known.since = changes /\ known.ran = NoFile
        /\ DOMAIN known = DOMAIN Blank
    BY DEF Blank
  <2>3. ASSUME pc'[c] = "probing", call'[c] = known PROVE CallInv(c)'
    <3> HIDE DEF known
    <3>1. UNCHANGED <<world, changes>>
      BY DEF Begin
    <3>2. CallTyped(c)' /\ Current(c)'
      BY <1>1, <1>2, <2>2, <2>3, <3>1, ResolvedThere DEF CallTyped, Current, Unsure
    <3>3. Provenance(c)' /\ AnswerHolds(c)'
      BY <2>3 DEF Provenance, AnswerHolds, Answered
    <3> QED BY <3>2, <3>3 DEF CallInv
  <2> HIDE DEF known
  <2> QED BY <2>1, <2>3, QuietStep DEF Begin
<1>3. CASE Resolve(world) = NoFile
  <2>1. PICK answer : /\ Answer(c, answer) /\ answer.status \in {"ERROR", "CHECKED"}
                      /\ answer.error # "stale_runtime_snapshot"
    <3>1. /\ Error("cli_unavailable", FALSE).status = "ERROR"
          /\ Error("cli_unavailable", FALSE).error = "cli_unavailable"
      BY DEF Error
    <3> QED BY <1>3, <3>1, DoctorVerdicts DEF Begin
  <2>2. Goto(c, "done", [Blank EXCEPT !.answer = answer])
    BY <2>1 DEF Answer
  <2> QED BY <1>1, <2>1, <2>2, ErrorCall, QuietStep DEF Begin
<1> QED BY <1>2, <1>3

(* Asking the CLI for its version keeps it.                                 *)
LEMMA ProbeKeeps ==
  ASSUME IInv, NEW c \in Call, Probe(c)
  PROVE  IInv'
<1> DEFINE next == IF pc[c] = "probing" THEN "capturing" ELSE "recapturing"
           there == world.at[call[c].cli]
<1>1. /\ CallTyped(c) /\ Current(c) /\ Provenance(c) /\ WorldInv
      /\ pc[c] \in {"probing", "reprobing"} /\ pc[c] \in Awaiting
      /\ changes \in Nat
  BY BoundsAssumption DEF IInv, CallInv, WorldInv, Probe, Awaiting, Before, After
<1>2. there # NoFile => there.version \in Version
  BY <1>1 DEF CallTyped, WorldInv, Binaries
<1>3. call[c].since = changes => there # NoFile
  BY <1>1, ResolvedThere DEF Current
<1>4. PICK known :
        /\ Goto(c, next, known)
        /\ DOMAIN known = DOMAIN Blank
        /\ known.cli = call[c].cli /\ known.before = call[c].before /\ known.ran = call[c].ran
        /\ known.version \in Version \cup {NoFile}
        /\ known.since \in {call[c].since, Unsure}
        /\ known.since = changes => known.since = call[c].since /\ known.version = there.version
  <2>1. CASE there # NoFile /\ Goto(c, next, [call[c] EXCEPT !.version = there.version])
    BY <1>1, <1>2, <2>1 DEF CallTyped, Blank
  <2>2. CASE Goto(c, next, [call[c] EXCEPT !.version = NoFile,
                                           !.since = IF there = NoFile THEN @ ELSE Unsure])
    <3> DEFINE known == [call[c] EXCEPT !.version = NoFile,
                                        !.since = IF there = NoFile THEN @ ELSE Unsure]
    <3>1. changes # Unsure
      BY <1>1 DEF Unsure
    <3>2. /\ DOMAIN known = DOMAIN Blank
          /\ known.cli = call[c].cli /\ known.before = call[c].before
          /\ known.ran = call[c].ran /\ known.version = NoFile
          /\ known.since = IF there = NoFile THEN call[c].since ELSE Unsure
      BY <1>1 DEF CallTyped, Blank
    <3>3. Goto(c, next, known)
      BY <2>2
    <3> HIDE DEF known, next, there
    <3> QED BY <1>3, <3>1, <3>2, <3>3
  <2> QED BY <2>1, <2>2 DEF Probe
<1>5. ASSUME pc'[c] = next, call'[c] = known PROVE CallInv(c)'
  <2>1. UNCHANGED <<world, changes>>
    BY DEF Probe
  <2>2. CallTyped(c)'
    BY <1>1, <1>4, <1>5, <2>1 DEF CallTyped, Unsure, Awaiting, Before, After
  <2>3. Current(c)'
    BY <1>1, <1>4, <1>5, <2>1 DEF Current, Present, Awaiting, Before, After
  <2>4. Provenance(c)' /\ AnswerHolds(c)'
    BY <1>1, <1>4, <1>5, <2>1 DEF Provenance, Gone, AnswerHolds, Answered, After
  <2> QED BY <2>2, <2>3, <2>4 DEF CallInv
<1>6. next \in Places
  BY DEF Places, Awaiting, Before, After
<1> HIDE DEF next
<1> QED BY <1>4, <1>5, <1>6, QuietStep DEF Probe

(* Capturing the identity keeps it.                                         *)
LEMMA ObserveKeeps ==
  ASSUME IInv, NEW c \in Call, Observe(c)
  PROVE  IInv'
<1> DEFINE next == IF pc[c] = "capturing" THEN "guarding" ELSE "reguarding"
<1>1. /\ CallTyped(c) /\ Current(c) /\ Provenance(c) /\ WorldInv
      /\ pc[c] \in {"capturing", "recapturing"} /\ pc[c] \in Awaiting
      /\ changes \in Nat
  BY BoundsAssumption DEF IInv, CallInv, WorldInv, Observe, Awaiting, Before, After
<1>2. PICK readable \in BOOLEAN :
        Goto(c, next, [call[c] EXCEPT
                         !.seen = Capture(world, call[c].cli, call[c].version, readable),
                         !.since = IF readable THEN @ ELSE Unsure])
  BY DEF Observe
<1> DEFINE known == [call[c] EXCEPT
                       !.seen = Capture(world, call[c].cli, call[c].version, readable),
                       !.since = IF readable THEN @ ELSE Unsure]
<1>3. /\ DOMAIN known = DOMAIN Blank
      /\ known.cli = call[c].cli /\ known.before = call[c].before /\ known.ran = call[c].ran
      /\ known.seen = Capture(world, call[c].cli, call[c].version, readable)
      /\ known.since = IF readable THEN call[c].since ELSE Unsure
  BY <1>1 DEF CallTyped, Blank
<1> HIDE DEF known
<1>4. /\ known.seen \in Identities
      /\ known.seen.state = "ready" =>
           /\ world.at[call[c].cli] # NoFile
           /\ known.seen.path = call[c].cli /\ known.seen.binary = world.at[call[c].cli].file
           /\ known.seen.binary \in 0 .. changes
  <2>1. call[c].cli \in ToSet(Paths) /\ call[c].version \in Version \cup {NoFile}
    BY <1>1 DEF CallTyped
  <2> QED BY <1>1, <1>3, <2>1, CapturedIdentity
<1>5. known.since = changes => known.seen = Present
  <2> SUFFICES ASSUME known.since = changes PROVE known.seen = Present
    OBVIOUS
  <2>1. readable /\ call[c].since = changes
    BY <1>1, <1>3 DEF Unsure
  <2>2. known.seen = Capture(world, call[c].cli, call[c].version, TRUE)
    BY <1>3, <2>1, Zenon
  <2>3. call[c].cli = Resolve(world) /\ call[c].version = world.at[Resolve(world)].version
    BY <1>1, <2>1 DEF Current
  <2> QED BY <2>2, <2>3 DEF Present
<1>6. ASSUME pc'[c] = next, call'[c] = known PROVE CallInv(c)'
  <2>1. UNCHANGED <<world, changes>>
    BY DEF Observe
  <2>2. CallTyped(c)'
    BY <1>1, <1>3, <1>4, <1>6, <2>1 DEF CallTyped, Unsure, Awaiting, Before, After
  <2>3. Current(c)'
    <3>1. Present' = Present
      BY <2>1 DEF Present
    <3>2. known.since = changes => call[c].since = changes
      BY <1>1, <1>3 DEF Unsure
    <3> QED BY <1>1, <1>3, <1>5, <1>6, <2>1, <3>1, <3>2 DEF Current, Awaiting, Before, After
  <2>4. Provenance(c)' /\ AnswerHolds(c)'
    BY <1>1, <1>3, <1>4, <1>6, <2>1 DEF Provenance, Gone, AnswerHolds, Answered, After
  <2> QED BY <2>2, <2>3, <2>4 DEF CallInv
<1>7. next \in Places
  BY DEF Places, Awaiting, Before, After
<1>8. Goto(c, next, known)
  BY <1>2 DEF known
<1> HIDE DEF next
<1> QED BY <1>6, <1>7, <1>8, QuietStep DEF Observe

(* A drift from the baseline, or from what was seen before the run, means   *)
(* that the world has changed.                                              *)
LEMMA DriftExplained ==
  ASSUME IInv, NEW c \in Call, pc[c] \in {"guarding", "reguarding"}, Pin(c),
         UNCHANGED <<world, changes>>,
         \/ Drift(baseline', call[c].seen) # {}
         \/ pc[c] = "reguarding" /\ Drift(call[c].before, call[c].seen) # {}
  PROVE  changes > call[c].since \/ changes > pinned'
<1>1. /\ CallTyped(c) /\ Current(c) /\ pinned' \in Unsure .. changes
      /\ pinned' = changes => baseline' = Present
      /\ changes \in Nat
  BY PinKeeps, BoundsAssumption DEF IInv, CallInv, WorldInv
<1> SUFFICES ASSUME call[c].since = changes, pinned' = changes PROVE FALSE
  BY <1>1 DEF CallTyped, Unsure
<1>2. /\ call[c].seen = Present /\ baseline' = Present
      /\ pc[c] = "reguarding" => call[c].before = Present
  BY <1>1 DEF Current, After
<1> QED BY <1>2, SameNoDrift

(* Showing the identity to the guard, which pins the first, keeps it.       *)
LEMMA GuardKeeps ==
  ASSUME IInv, NEW c \in Call, Guard(c)
  PROVE  IInv'
<1> USE DEF Places, Awaiting, Before, After
<1>1. /\ CallTyped(c) /\ Current(c) /\ Provenance(c) /\ WorldInv
      /\ pc[c] = "guarding" /\ Pin(c) /\ UNCHANGED <<world, changes>>
  BY DEF IInv, CallInv, Guard
<1>2. /\ baseline' \in Identities \cup {NoFile} /\ baseline' # NoFile
      /\ pinned' \in Unsure .. changes
      /\ pinned' = changes => baseline' = Present
      /\ baseline # NoFile => UNCHANGED <<baseline, pinned>>
  BY <1>1, PinKeeps
<1>3. CASE Drift(baseline', call[c].seen) # {} /\ AnswerStale(c)
  <2>1. CallInv(c)'
    BY <1>1, <1>2, <1>3, DriftExplained, StaleCall
  <2> QED BY <1>1, <1>2, <1>3, <2>1, CallStep DEF AnswerStale
<1>4. CASE \E troubles \in Troubles :
             Answer(c, DoctorVerdict(call[c].version # NoFile, troubles))
  <2>1. PICK answer : /\ Answer(c, answer) /\ answer.status \in {"ERROR", "CHECKED"}
                      /\ answer.error # "stale_runtime_snapshot"
    BY <1>4, DoctorVerdicts
  <2>2. Goto(c, "done", [Blank EXCEPT !.answer = answer])
    BY <2>1 DEF Answer
  <2> QED BY <1>1, <1>2, <2>1, <2>2, ErrorCall, CallStep
<1> DEFINE known == [call[c] EXCEPT !.before = call[c].seen, !.seen = NoFile,
                                    !.version = NoFile]
<1>5. CASE Goto(c, "admission", known)
  <2>1. /\ DOMAIN known = DOMAIN Blank /\ known.cli = call[c].cli
        /\ known.before = call[c].seen /\ known.since = call[c].since
        /\ known.ran = call[c].ran
    BY <1>1 DEF CallTyped, Blank
  <2>2. ASSUME pc'[c] = "admission", call'[c] = known PROVE CallInv(c)'
    <3> HIDE DEF known
    <3>1. CallTyped(c)'
      BY <1>1, <2>1, <2>2 DEF CallTyped
    <3>2. Current(c)'
      BY <1>1, <2>1, <2>2 DEF Current, Present
    <3>3. Provenance(c)' /\ AnswerHolds(c)'
      BY <1>1, <2>1, <2>2 DEF CallTyped, Provenance, AnswerHolds, Answered
    <3> QED BY <3>1, <3>2, <3>3 DEF CallInv
  <2> HIDE DEF known
  <2> QED BY <1>1, <1>2, <1>5, <2>2, CallStep
<1> QED BY <1>3, <1>4, <1>5 DEF Guard

(* A refusal before the CLI starts keeps it.                                *)
LEMMA RefuseKeeps ==
  ASSUME IInv, NEW c \in Call, Refuse(c)
  PROVE  IInv'
<1>1. PICK answer : /\ Answer(c, answer) /\ answer.status \in {"ERROR", "CHECKED"}
                    /\ answer.error # "stale_runtime_snapshot"
  <2>1. ASSUME NEW e \in {"workspace_lock_timeout", "workspace_lock_unavailable"}, NEW mode
        PROVE  /\ Error(e, Retryable(e, mode)).status = "ERROR"
               /\ Error(e, Retryable(e, mode)).error # "stale_runtime_snapshot"
    BY DEF Error
  <2>2. ASSUME NEW e \in {"review_required", "review_state_unavailable"}
        PROVE  /\ Error(e, FALSE).status = "ERROR"
               /\ Error(e, FALSE).error # "stale_runtime_snapshot"
    BY DEF Error
  <2>3. CASE \E e \in {"review_required", "review_state_unavailable"} : Answer(c, Error(e, FALSE))
    BY <2>2, <2>3
  <2>4. CASE \E mode \in Modes, e \in {"workspace_lock_timeout", "workspace_lock_unavailable"} :
               Answer(c, Error(e, Retryable(e, mode)))
    BY <2>1, <2>4
  <2> QED BY <2>3, <2>4 DEF Refuse
<1>2. Goto(c, "done", [Blank EXCEPT !.answer = answer])
  BY <1>1 DEF Answer
<1>3. WorldInv /\ UNCHANGED <<world, changes, baseline, pinned>> /\ "done" \in Places
  BY DEF IInv, Refuse, Places
<1> QED BY <1>1, <1>2, <1>3, ErrorCall, QuietStep

(* The file that is started is the one seen before, or that one is gone.    *)
LEMMA StartKeeps ==
  ASSUME IInv, NEW c \in Call, Start(c)
  PROVE  IInv'
<1> USE DEF Places, Awaiting, Before, After
<1> DEFINE there == world.at[call[c].cli]
<1>1. /\ CallTyped(c) /\ Current(c) /\ Provenance(c) /\ WorldInv /\ pc[c] = "admission"
      /\ UNCHANGED <<world, changes, baseline, pinned>>
  BY DEF IInv, CallInv, Start
<1>2. PICK place, known :
        /\ place \in {"running", "ended"} /\ Goto(c, place, known)
        /\ DOMAIN known = DOMAIN Blank /\ known.cli = call[c].cli
        /\ known.before = call[c].before /\ known.since = call[c].since
        /\ known.ran = call[c].ran \/ (there # NoFile /\ known.ran = there.file)
  <2>1. CASE Goto(c, "ended", call[c])
    BY <1>1, <2>1 DEF CallTyped
  <2>2. CASE there # NoFile /\ Goto(c, "running", [call[c] EXCEPT !.ran = there.file])
    BY <1>1, <2>2 DEF CallTyped, Blank
  <2> QED BY <2>1, <2>2 DEF Start
<1>3. ASSUME pc'[c] = place, call'[c] = known PROVE CallInv(c)'
  <2>1. CallTyped(c)' /\ Current(c)'
    BY <1>1, <1>2, <1>3 DEF CallTyped, Current, Present
  <2>2. call[c].before.state = "ready" =>
          known.ran \in {NoFile, call[c].before.binary}
            \/ Gone(call[c].before.path, call[c].before.binary)
    BY <1>1, <1>2 DEF CallTyped, Provenance, Gone
  <2>3. Provenance(c)' /\ AnswerHolds(c)'
    BY <1>1, <1>2, <1>3, <2>2 DEF Provenance, Gone, AnswerHolds, Answered
  <2> QED BY <2>1, <2>3 DEF CallInv
<1> QED BY <1>1, <1>2, <1>3, QuietStep

(* The end of the run keeps it.                                             *)
LEMMA CliEndsKeeps ==
  ASSUME IInv, NEW c \in Call, CliEnds(c)
  PROVE  IInv'
<1> USE DEF Places, Awaiting, Before, After
<1>1. /\ CallTyped(c) /\ Current(c) /\ Provenance(c) /\ WorldInv /\ pc[c] = "running"
      /\ UNCHANGED <<world, changes, baseline, pinned>> /\ Goto(c, "ended", call[c])
  BY DEF IInv, CallInv, CliEnds
<1>2. ASSUME pc'[c] = "ended", call'[c] = call[c] PROVE CallInv(c)'
  <2>1. CallTyped(c)' /\ Current(c)'
    BY <1>1, <1>2 DEF CallTyped, Current, Present
  <2>2. Provenance(c)' /\ AnswerHolds(c)'
    BY <1>1, <1>2 DEF Provenance, Gone, AnswerHolds, Answered
  <2> QED BY <2>1, <2>2 DEF CallInv
<1> QED BY <1>1, <1>2, QuietStep

(* Resolving the CLI a second time keeps it.                                *)
LEMMA ResolveAgainKeeps ==
  ASSUME IInv, NEW c \in Call, ResolveAgain(c)
  PROVE  IInv'
<1> USE DEF Places, Awaiting, Before, After
<1>1. /\ CallTyped(c) /\ Current(c) /\ Provenance(c) /\ WorldInv /\ pc[c] = "ended"
      /\ UNCHANGED <<world, changes, baseline, pinned>>
  BY DEF IInv, CallInv, ResolveAgain
<1>2. PICK place, known :
        /\ place \in {"reprobing", "recapturing"} /\ Goto(c, place, known)
        /\ DOMAIN known = DOMAIN Blank /\ known.cli \in ToSet(Paths)
        /\ known.before = call[c].before /\ known.since = call[c].since
        /\ known.ran = call[c].ran
        /\ Resolve(world) # NoFile => place = "reprobing" /\ known.cli = Resolve(world)
        /\ place = "recapturing" => known.version = NoFile
  <2>1. CASE Resolve(world) # NoFile
    <3>1. Resolve(world) \in ToSet(Paths)
      BY <2>1, ResolvedThere
    <3> QED BY <1>1, <2>1, <3>1 DEF ResolveAgain, CallTyped, Blank
  <2>2. CASE Resolve(world) = NoFile
    BY <1>1, <2>2 DEF ResolveAgain, CallTyped, Blank
  <2> QED BY <2>1, <2>2
<1>3. ASSUME pc'[c] = place, call'[c] = known PROVE CallInv(c)'
  <2>1. CallTyped(c)' /\ Current(c)'
    BY <1>1, <1>2, <1>3 DEF CallTyped, Current, Present
  <2>2. Provenance(c)' /\ AnswerHolds(c)'
    BY <1>1, <1>2, <1>3 DEF Provenance, Gone, AnswerHolds, Answered
  <2> QED BY <2>1, <2>2 DEF CallInv
<1> QED BY <1>1, <1>2, <1>3, QuietStep

(* A run whose runtime has not drifted: what ran is the pinned binary.      *)
LEMMA JudgeRunKeeps ==
  ASSUME IInv, NEW c \in Call, JudgeRun(c)
  PROVE  IInv'
<1> USE DEF Places, Awaiting, Before, After
<1>1. /\ CallTyped(c) /\ Current(c) /\ Provenance(c) /\ WorldInv
      /\ pc[c] = "reguarding" /\ Pin(c) /\ UNCHANGED <<world, changes>>
      /\ changes \in Nat
  BY BoundsAssumption DEF IInv, CallInv, WorldInv, JudgeRun
<1>2. /\ baseline' \in Identities /\ baseline' # NoFile
      /\ pinned' \in Unsure .. changes
      /\ pinned' = changes => baseline' = Present
      /\ baseline # NoFile => UNCHANGED <<baseline, pinned>>
  BY <1>1, PinKeeps
<1> DEFINE drift == Drift(call[c].before, call[c].seen) \cup Drift(baseline', call[c].seen)
<1>3. CASE drift # {} /\ AnswerStale(c)
  <2>1. CallInv(c)'
    BY <1>1, <1>2, <1>3, DriftExplained, StaleCall
  <2> QED BY <1>1, <1>2, <1>3, <2>1, CallStep DEF AnswerStale
<1>4. CASE drift = {} /\ \E end \in Ends(c) : AnswerRun(c, end)
  <2>1. PICK end \in Ends(c) : AnswerRun(c, end)
    BY <1>4
  <2> DEFINE known == [Blank EXCEPT !.answer = end.verdict, !.end = end, !.ran = call[c].ran]
  <2>2. /\ Goto(c, "done", known) /\ DOMAIN known = DOMAIN Blank
        /\ known.answer = end.verdict /\ known.end = end /\ known.ran = call[c].ran
        /\ known.since = Unsure
    BY <2>1 DEF AnswerRun, Blank
  <2> HIDE DEF known
  <2>3. /\ end # None /\ end.verdict.status \in {"SUCCESS", "ERROR"}
        /\ end.verdict.status = "SUCCESS" <=> ~end.failed
        /\ end.calls # {} => end.verdict.error \in end.calls
        /\ AsMeant(end)
    BY EndsAgree, EndsKeep, EndsAsMeant, EndAssumption DEF Ends
  <2>4. end.verdict.status = "SUCCESS" => call[c].ran # NoFile
    BY NoStartFails DEF Ends
  <2>5. call[c].before \in Identities /\ call[c].seen \in Identities
    BY <1>1 DEF CallTyped
  <2>6. /\ call[c].before.state = call[c].seen.state
        /\ baseline'.state = call[c].seen.state
        /\ call[c].seen.state = "ready" =>
             /\ call[c].before.path = call[c].seen.path
             /\ call[c].before.binary = call[c].seen.binary
             /\ baseline'.binary = call[c].seen.binary
    BY <1>2, <1>4, <2>5, NoDriftSame
  <2>7. end.verdict.status = "SUCCESS" /\ baseline'.state = "ready"
          => call[c].ran = baseline'.binary
    BY <1>1, <2>4, <2>6 DEF Provenance
  <2>8. ASSUME pc'[c] = "done", call'[c] = known PROVE CallInv(c)'
    <3>1. CallTyped(c)' /\ Current(c)'
      BY <1>1, <2>2, <2>3, <2>8 DEF CallTyped, Current, Unsure
    <3>2. Provenance(c)'
      BY <2>8 DEF Provenance
    <3>3. AnswerHolds(c)'
      BY <1>2, <2>2, <2>3, <2>7, <2>8 DEF AnswerHolds, Answered, Judged
    <3> QED BY <3>1, <3>2, <3>3 DEF CallInv
  <2> QED BY <1>1, <1>2, <2>2, <2>8, CallStep
<1> QED BY <1>3, <1>4 DEF JudgeRun

(* A call that returns, and a guard that nobody waits for, keep it.         *)
LEMMA IdleKeeps ==
  ASSUME IInv, NEW c \in Call, Return(c) \/ AbandonedGuard(c)
  PROVE  IInv'
<1>1. WorldInv /\ "idle" \in Places
  BY DEF IInv, Places
<1>2. CASE Return(c)
  BY <1>1, <1>2, BlankCall, QuietStep DEF Return
<1>3. CASE AbandonedGuard(c)
  <2>1. /\ baseline' \in Identities /\ pinned' \in Unsure .. changes
        /\ pinned' = changes => baseline' = Present
        /\ baseline # NoFile => UNCHANGED <<baseline, pinned>>
    BY <1>3, PinKeeps DEF AbandonedGuard
  <2> QED BY <1>1, <1>3, <2>1, BlankCall, CallStep DEF AbandonedGuard
<1> QED BY <1>2, <1>3

(* A cancellation, wherever a call awaits, keeps it.                        *)
LEMMA CancelKeeps ==
  ASSUME IInv, NEW c \in Call, Cancel(c)
  PROVE  IInv'
<1> USE DEF Places, Awaiting, Before, After
<1>1. WorldInv /\ CallInv(c) /\ UNCHANGED <<world, changes, baseline, pinned>>
  BY DEF IInv, Cancel
<1>2. CASE Goto(c, "idle", Blank)
  BY <1>1, <1>2, BlankCall, QuietStep
<1>3. CASE pc[c] = "guarding" /\ Goto(c, "abandoned", call[c])
  <2>1. ASSUME pc'[c] = "abandoned", call'[c] = call[c] PROVE CallInv(c)'
    <3>1. CallTyped(c)' /\ Current(c)'
      BY <1>1, <1>3, <2>1 DEF CallInv, CallTyped, Current, Present
    <3>2. Provenance(c)' /\ AnswerHolds(c)'
      BY <1>1, <1>3, <2>1 DEF CallInv, Provenance, AnswerHolds, Answered
    <3> QED BY <3>1, <3>2 DEF CallInv
  <2> QED BY <1>1, <1>3, <2>1, QuietStep
<1> QED BY <1>2, <1>3 DEF Cancel

(* A change of the world: what calls have seen is no longer current, and a  *)
(* file that is gone does not come back.                                    *)
LEMMA ChangeKeeps ==
  ASSUME IInv, NEW new, Change(new),
         new \in [at : [ToSet(Paths) -> Binaries' \cup {NoFile}], package : Package],
         \A p \in ToSet(Paths) : \/ new.at[p] \in {world.at[p], NoFile}
                                 \/ new.at[p].file = changes + 1
  PROVE  IInv'
<1>1. /\ WorldInv /\ changes \in Nat /\ changes' = changes + 1 /\ changes' \in 0 .. MaxChanges
      /\ world' = new /\ UNCHANGED <<pc, call, baseline, pinned>>
  BY BoundsAssumption DEF IInv, WorldInv, Change
<1>2. WorldInv'
  BY <1>1 DEF WorldInv, Unsure
<1>3. ASSUME NEW c \in Call PROVE CallInv(c)'
  <2>1. CallInv(c) /\ call[c].since \in Unsure .. changes
    BY DEF IInv, CallInv, CallTyped
  <2>2. CallTyped(c)'
    BY <1>1, <2>1 DEF CallInv, CallTyped, Unsure
  <2>3. Current(c)'
    BY <1>1, <2>1 DEF Current, Unsure
  <2>4. ASSUME NEW path, NEW file, Gone(path, file) PROVE Gone(path, file)'
    BY <1>1, <2>4 DEF Gone
  <2>5. Provenance(c)'
    BY <1>1, <2>1, <2>4 DEF CallInv, Provenance
  <2>6. AnswerHolds(c)'
    BY <1>1, <2>1 DEF CallInv, AnswerHolds, Answered, Judged, Unsure
  <2> QED BY <2>2, <2>3, <2>5, <2>6 DEF CallInv
<1> QED BY <1>2, <1>3 DEF IInv

(* A change of the installed binaries or of the package keeps it.           *)
LEMMA WorldKeeps ==
  ASSUME IInv, Install \/ Uninstall \/ Upgrade
  PROVE  IInv'
<1>1. WorldInv /\ changes \in Nat
  BY BoundsAssumption DEF IInv, WorldInv
<1>2. ASSUME changes' = changes + 1
      PROVE  /\ Binaries \subseteq Binaries'
             /\ \A v \in Version : [file |-> changes + 1, version |-> v] \in Binaries'
  BY <1>1, <1>2 DEF Binaries
<1>3. CASE Install
  <2>1. PICK p \in ToSet(Paths), v \in Version :
          Change([world EXCEPT !.at[p] = [file |-> changes + 1, version |-> v]])
    BY <1>3 DEF Install
  <2> DEFINE new == [world EXCEPT !.at[p] = [file |-> changes + 1, version |-> v]]
  <2>2. changes' = changes + 1
    BY <2>1 DEF Change
  <2>3. new \in [at : [ToSet(Paths) -> Binaries' \cup {NoFile}], package : Package]
    BY <1>1, <1>2, <2>2 DEF WorldInv
  <2>4. \A q \in ToSet(Paths) : \/ new.at[q] \in {world.at[q], NoFile}
                                \/ new.at[q].file = changes + 1
    BY <1>1 DEF WorldInv
  <2> HIDE DEF new
  <2> QED BY <2>1, <2>3, <2>4, ChangeKeeps DEF new
<1>4. CASE Uninstall
  <2>1. PICK p \in ToSet(Paths) : Change([world EXCEPT !.at[p] = NoFile])
    BY <1>4 DEF Uninstall
  <2> DEFINE new == [world EXCEPT !.at[p] = NoFile]
  <2>2. changes' = changes + 1
    BY <2>1 DEF Change
  <2>3. new \in [at : [ToSet(Paths) -> Binaries' \cup {NoFile}], package : Package]
    BY <1>1, <1>2, <2>2 DEF WorldInv
  <2>4. \A q \in ToSet(Paths) : new.at[q] \in {world.at[q], NoFile}
    BY <1>1 DEF WorldInv
  <2> HIDE DEF new
  <2> QED BY <2>1, <2>3, <2>4, ChangeKeeps DEF new
<1>5. CASE Upgrade
  <2>1. PICK k \in Package : Change([world EXCEPT !.package = k])
    BY <1>5 DEF Upgrade
  <2> DEFINE new == [world EXCEPT !.package = k]
  <2>2. changes' = changes + 1
    BY <2>1 DEF Change
  <2>3. new \in [at : [ToSet(Paths) -> Binaries' \cup {NoFile}], package : Package]
    BY <1>1, <1>2, <2>2 DEF WorldInv
  <2>4. \A q \in ToSet(Paths) : new.at[q] \in {world.at[q], NoFile}
    BY <1>1 DEF WorldInv
  <2> HIDE DEF new
  <2> QED BY <2>1, <2>3, <2>4, ChangeKeeps DEF new
<1> QED BY <1>3, <1>4, <1>5

(* A restart, which forgets the baseline, keeps it.                         *)
LEMMA RestartKeeps ==
  ASSUME IInv, Restart
  PROVE  IInv'
<1>1. WorldInv /\ changes \in Nat
  BY BoundsAssumption DEF IInv, WorldInv
<1>2. WorldInv'
  <2>1. Unsure \in Unsure .. changes /\ Unsure # changes
    BY <1>1 DEF Unsure
  <2>2. Binaries' = Binaries
    BY DEF Restart, Binaries
  <2> QED BY <1>1, <2>1, <2>2 DEF WorldInv, Restart
<1>3. \A c \in Call : CallInv(c)'
  BY <1>1, BlankCall DEF Restart
<1> QED BY <1>2, <1>3 DEF IInv

(* Every step keeps the invariant.                                          *)
LEMMA NextKeeps ==
  ASSUME IInv, [Next]_vars
  PROVE  IInv'
<1>1. ASSUME NEW c \in Call,
             \/ Begin(c) \/ Probe(c) \/ Observe(c) \/ Guard(c)
             \/ Refuse(c) \/ Start(c) \/ CliEnds(c) \/ ResolveAgain(c) \/ JudgeRun(c)
             \/ Return(c) \/ Cancel(c) \/ AbandonedGuard(c)
      PROVE  IInv'
  BY <1>1, BeginKeeps, ProbeKeeps, ObserveKeeps, GuardKeeps, RefuseKeeps, StartKeeps,
     CliEndsKeeps, ResolveAgainKeeps, JudgeRunKeeps, IdleKeeps, CancelKeeps
<1>2. CASE UNCHANGED vars
  <2> USE <1>2 DEF vars
  <2>1. Present' = Present /\ Binaries' = Binaries
    BY DEF Present, Binaries
  <2>2. WorldInv'
    BY <2>1 DEF IInv, WorldInv
  <2>3. ASSUME NEW c \in Call PROVE CallInv(c)'
    <3>1. CallInv(c)
      BY DEF IInv
    <3>2. CallTyped(c)' /\ Current(c)'
      BY <2>1, <3>1 DEF CallInv, CallTyped, Current
    <3>3. Provenance(c)' /\ AnswerHolds(c)'
      BY <3>1 DEF CallInv, Provenance, Gone, AnswerHolds, Answered, Judged
    <3> QED BY <3>2, <3>3 DEF CallInv
  <2> QED BY <2>2, <2>3 DEF IInv
<1> QED BY <1>1, <1>2, WorldKeeps, RestartKeeps DEF Next

-----------------------------------------------------------------------------
(* IInv is an invariant.                                                    *)
LEMMA Invariant == Spec => []IInv
  BY InitIInv, NextKeeps, PTL DEF Spec

(* Where a call awaits, what it knows by then and what it answers.          *)
THEOREM TypeCorrect == Spec => []TypeOK
  BY Invariant, InvariantImplies, PTL

(* A success is of the pinned binary: the file that ran was the one seen    *)
(* before and after, for files do not come back.                            *)
THEOREM SuccessOnPinnedRuntimeHolds == Spec => []SuccessOnPinnedRuntime
  BY Invariant, InvariantImplies, PTL

(* Observations of one world do not differ, so a drift has a cause.         *)
THEOREM StaleExplainedHolds == Spec => []StaleExplained
  BY Invariant, InvariantImplies, PTL

(* _cli_result_failed_for_review and the end of the execution agree on      *)
(* every run, whatever the CLI wrote and however it ended.                  *)
THEOREM ReviewAgreesHolds == Spec => []ReviewAgrees
  BY Invariant, InvariantImplies, PTL

(* The client is answered what the whole stream of events says: the reader  *)
(* that takes it line by line misses nothing and adds nothing, for streams  *)
(* of any length, and the end of the execution passes it on.                *)
THEOREM AnswerIsReferenceHolds == Spec => []AnswerIsReference
  BY Invariant, InvariantImplies, PTL

(* Whatever return the execution's end takes, a root cause that stderr      *)
(* shows is not replaced by another class.                                  *)
THEOREM RootCauseKeptHolds == Spec => []RootCauseKept
  BY Invariant, InvariantImplies, PTL
=============================================================================
