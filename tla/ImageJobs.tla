------------------------------ MODULE ImageJobs ------------------------------
(***************************************************************************)
(* logo/generate.py: a batch of logo variants, each one job of an image    *)
(* provider.  Atlas Cloud and MuAPI take a POST and are polled for the     *)
(* result; Gemini answers the call itself.  Calls fail, answers are lost,  *)
(* predictions hang, the disk fills up and the process is killed.          *)
(***************************************************************************)
EXTENDS Naturals, FiniteSets

CONSTANTS
  BatchStyles,  \* number of styles generate_batch has a variant for (9)
  MaxCount,     \* bound: --batch
  MaxPolls,     \* ATLAS_MAX_POLLS, MUAPI_MAX_POLLS
  MaxBatches    \* bound: runs of the tool with one output directory

ASSUME JobsAssumption ==
  BatchStyles \in Nat \ {0} /\ MaxCount \in Nat \ {0} /\ MaxPolls \in Nat /\ MaxBatches \in Nat

Provider == {"gemini", "atlas", "muapi"}
Variant == 1..BatchStyles

\* What a provider may say of a prediction.
Status == {"processing", "completed", "succeeded", "failed", "error", "canceled"}
Completed(p) == IF p = "atlas" THEN {"completed"} ELSE {"completed", "succeeded"}
Failed(p) == IF p = "atlas" THEN {"failed", "canceled"} ELSE {"failed", "error", "canceled"}
Terminal(p) == Completed(p) \cup Failed(p)

Url == {"public", "local", "none"}   \* https and not local, anything else, no string
Public_Any(u) == u # "none"   \* mutant: any URL will do
Public(u) == u = "public"

VARIABLES
  batches,   \* runs so far
  at,        \* the call the run is about to make
  job,       \* the arguments and locals of the run
  remote,    \* what the provider knows of the current prediction
  posts,     \* posts[v]: creation requests the current batch has made for v
  fetched,   \* the URLs requested on behalf of the current batch
  image,     \* image[v]: whose file is there (a batch, 0 for none), and is it whole
  outcome    \* outcome[v]: how the current batch fared with v

jobsVars == <<batches, at, job, remote, posts, fetched, image, outcome>>

Job(p, n, v) == [provider |-> p, count |-> n, variant |-> v,
                 answer |-> "processing", source |-> "public", polls |-> 0]
NoJob == Job("gemini", 1, 1)
Untried == [v \in Variant |-> "untried"]

JobsInit ==
  /\ batches = 0 /\ at = "idle" /\ job = NoJob
  /\ remote = "processing" /\ fetched = {}
  /\ posts = [v \in Variant |-> 0]
  /\ image = [v \in Variant |-> [by |-> 0, whole |-> TRUE]]
  /\ outcome = Untried

\* Each variant has a file of its own, the same one in every run.
StartBatch(p, n) ==
  /\ at = "idle" /\ batches < MaxBatches
  /\ batches' = batches + 1
  /\ job' = Job(p, n, 1)
  /\ at' = "post"
  /\ posts' = [v \in Variant |-> 0]
  /\ fetched' = {} /\ outcome' = Untried
  /\ UNCHANGED <<remote, image>>

Variants == IF job.count < BatchStyles THEN job.count ELSE BatchStyles

Settle_Abort(how) ==   \* mutant: the batch gives up with the first variant that fails
  /\ outcome' = [outcome EXCEPT ![job.variant] = how]
  /\ \/ /\ job.variant < Variants /\ how = "saved"
        /\ job' = Job(job.provider, job.count, job.variant + 1)
        /\ at' = "post"
     \/ /\ job.variant >= Variants \/ how # "saved"
        /\ job' = NoJob /\ at' = "idle"
\* generate_logo returned, a path or None: the next variant, or the end.
Settle(how) ==
  /\ outcome' = [outcome EXCEPT ![job.variant] = how]
  /\ \/ /\ job.variant < Variants
        /\ job' = Job(job.provider, job.count, job.variant + 1)
        /\ at' = "post"
     \/ /\ job.variant >= Variants
        /\ job' = NoJob /\ at' = "idle"

\* An exception: generate_logo prints it and returns None.
Fail == Settle("failed") /\ UNCHANGED <<batches, remote, posts, fetched, image>>

Goto(stage) == at' = stage /\ UNCHANGED <<batches, remote, posts, image, outcome>>

\* One call, which answers with an image or not.
AskGemini ==
  /\ at = "post" /\ job.provider = "gemini"
  /\ \/ Goto("open") /\ UNCHANGED <<job, fetched>>
     \/ Fail

\* The creation request is answered with a status and, by MuAPI, with the URL to
\* poll; or it is refused, or the answer is lost.
Post ==
  /\ at = "post" /\ job.provider # "gemini"
  /\ posts' = [posts EXCEPT ![job.variant] = @ + 1]
  /\ \E s \in Status, u \in Url :
       \/ /\ job.provider = "muapi" => Public(u)
          /\ job' = [job EXCEPT !.answer = s,
                                !.source = IF job.provider = "muapi" THEN u ELSE "public"]
          /\ remote' = s /\ at' = "look"
          /\ UNCHANGED outcome
       \/ Settle("failed") /\ UNCHANGED remote
  /\ UNCHANGED <<batches, fetched, image>>

\* The provider works on the prediction.
Progress ==
  /\ at \in {"look", "poll"} /\ remote = "processing"
  /\ remote' \in Status \ {"processing"}
  /\ UNCHANGED <<batches, at, job, posts, fetched, image, outcome>>

OutOfPolls_Never == FALSE                      \* mutant: while True
OutOfPolls_Early == job.polls + 1 = MaxPolls   \* mutant: range(MAX_POLLS)
OutOfPolls == job.polls = MaxPolls

TimeOut == Settle("timeout") /\ UNCHANGED <<batches, remote, posts, fetched, image>>

\* A turn of the loop: what the last answer said.
Look ==
  /\ at = "look"
  /\ \/ job.answer \in Completed(job.provider) /\ (Goto("download") /\ UNCHANGED <<job, fetched>>)
     \/ job.answer \in Completed(job.provider) /\ Fail      \* without an image URL
     \/ job.answer \in Failed(job.provider) /\ Fail
     \/ job.answer \notin Terminal(job.provider) /\ OutOfPolls /\ TimeOut
     \/ /\ job.answer \notin Terminal(job.provider) /\ ~OutOfPolls
        /\ Goto("poll") /\ UNCHANGED <<job, fetched>>

PollFailed_Again ==   \* mutant: a lost answer starts the job over
  Goto("post") /\ UNCHANGED <<job, fetched>>
PollFailed == Fail

Polled_Processing ==   \* mutant: a processing prediction costs no turn
  IF remote = "processing" THEN job.polls ELSE job.polls + 1
Polled == job.polls + 1

Poll ==
  /\ at = "poll"
  /\ \/ /\ job' = [job EXCEPT !.answer = remote, !.polls = Polled]
        /\ fetched' = fetched \cup {job.source}
        /\ Goto("look")
     \/ PollFailed

\* The image URL is the provider's; it may not answer, or not with an image.
Download ==
  /\ at = "download"
  /\ \/ \E u \in Url : /\ Public(u)
                       /\ fetched' = fetched \cup {u}
                       /\ Goto("open") /\ UNCHANGED job
     \/ Fail

\* open(output_path, "wb") empties the file that is there.
OpenImage ==
  /\ at = "open"
  /\ \/ /\ image' = [image EXCEPT ![job.variant] = [by |-> batches, whole |-> FALSE]]
        /\ at' = "save"
        /\ UNCHANGED <<batches, job, remote, posts, fetched, outcome>>
     \/ Fail

Unsaved_Returned ==   \* mutant: the path is returned all the same
  Settle("saved") /\ UNCHANGED <<batches, remote, posts, fetched, image>>
\* The disk is full.
Unsaved == Fail

SaveImage ==
  /\ at = "save"
  /\ \/ /\ image' = [image EXCEPT ![job.variant].whole = TRUE]
        /\ Settle("saved")
        /\ UNCHANGED <<batches, remote, posts, fetched>>
     \/ Unsaved

KillBatch ==
  /\ at # "idle"
  /\ at' = "idle" /\ job' = NoJob
  /\ outcome' = Untried
  /\ UNCHANGED <<batches, remote, posts, fetched, image>>

BatchStep == AskGemini \/ Post \/ Look \/ Poll \/ Download \/ OpenImage \/ SaveImage

JobsNext ==
  \/ \E p \in Provider, n \in 1..MaxCount : StartBatch(p, n)
  \/ BatchStep \/ Progress \/ KillBatch

\* Every call of the run returns: the HTTP calls have time limits.
JobsFairness == WF_jobsVars(BatchStep)
JobsSpec == JobsInit /\ [][JobsNext]_jobsVars /\ JobsFairness

-----------------------------------------------------------------------------
(* Properties                                                              *)

JobsTypeOK ==
  /\ batches \in 0..MaxBatches
  /\ at \in {"idle", "post", "look", "poll", "download", "open", "save"}
  /\ job \in [provider: Provider, count: 1..MaxCount, variant: Variant, answer: Status,
              source: Url, polls: 0..MaxPolls]
  /\ remote \in Status
  /\ posts \in [Variant -> Nat]
  /\ fetched \subseteq Url
  /\ image \in [Variant -> [by: 0..MaxBatches, whole: BOOLEAN]]
  /\ outcome \in [Variant -> {"untried", "saved", "failed", "timeout"}]

\* A variant costs one creation request, whatever fails after it
\* (test_atlas_logo_provider.py and test_muapi_logo_provider.py,
\* "does_not_retry_generation_post").
OnePost == \A v \in Variant : posts[v] <= 1

\* A path that generate_logo returned holds the image of this batch, all of it,
\* also when an earlier run left a file there (_download_image).
SavedIsThere ==
  \A v \in Variant : outcome[v] = "saved" => image[v] = [by |-> batches, whole |-> TRUE]

\* A job times out with the status of its last poll looked at: MaxPolls polls and
\* no answer that would have ended it (_generate_with_atlas, _generate_with_muapi).
TimeOutIsLast ==
  [][\A v \in Variant : outcome'[v] = "timeout" /\ outcome[v] # "timeout" =>
       /\ job.polls = MaxPolls
       /\ job.answer \notin Terminal(job.provider)]_jobsVars

\* Nothing is requested from a URL that was not checked (_validate_public_https_url
\* before the polls of _muapi_result_url and in _download_image).
OnlyPublic == fetched \subseteq {"public"}

\* A batch that ends by itself has tried as many styles as asked for, at most all,
\* whichever of them failed (generate_batch).
AllTried ==
  [][at # "idle" /\ at' = "idle" /\ outcome' # Untried =>
       \A v \in Variant : outcome'[v] # "untried" <=> v <= job.count]_jobsVars

\* A batch pays once for each variant and tells what it has.
JobsSound ==
  /\ [](JobsTypeOK /\ OnePost /\ SavedIsThere /\ OnlyPublic)
  /\ TimeOutIsLast /\ AllTried

\* Every batch ends, whatever the provider does (the bound on polls).
BatchEnds == at # "idle" ~> at = "idle"
=============================================================================
