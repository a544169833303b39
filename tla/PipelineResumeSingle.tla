------------------------ MODULE PipelineResumeSingle ------------------------
(***************************************************************************)
(* The pipeline with one executor at a time, which is what the queue gives *)
(* while leases are renewed on time (JobQueuePrompt, ExclusiveExecution):  *)
(* it is interrupted anywhere and run again any number of times.           *)
(***************************************************************************)
EXTENDS PipelineResume, FiniteSets, FiniteSetsExt

ASSUME SingleAssumption == \A e, f \in Executors : e = f

\* However often the pipeline is interrupted and run again, the rules of a case,
\* the rules of a cluster, a review and a case result are written at most once.
AnswersOnce == \A u \in Units : u[2] > 0 => rows[u] <= 1

\* No model call is made for an item whose answer has been committed.
NoPaidWorkRepeated ==
    [][\A u \in Units : u[2] > 0 /\ calls'[u] > calls[u] => ~Settled(u)]_vars

\* The paid work an interruption costs: at most the call for the item that was in
\* flight, since the calls for all other items have their answers in the database, and
\* one more pass of the embedding model over the rules and one over the cases, since
\* embeddings are never stored.
LostPerInterruption ==
    LET items    == {u \in Units : u[2] > 0}
        answered == {u \in items : Settled(u)}
        inFlight == {e \in Executors : run[e].item # 0 /\ ~Settled(At(e))}
        made     == MapThenSumSet(LAMBDA u : calls[u], items)
        interruptions == MaxInterruptions - budget
    IN  /\ made <= Cardinality(answered) + Cardinality(inFlight) + interruptions
        /\ \A k \in Stages : calls[<<k, 0>>] <= 1 + interruptions

\* The stages complete in order, and an answer belongs to the stage that is next.
Chain == INSTANCE StageChain WITH
    complete <- {k \in Stages : marks[<<k, 0>>] > 0},
    answered <- {u \in Units : u[2] > 0 /\ Settled(u)},
    CaseStages <- {Extracting} \cup Evaluating

ImplementsChain == Chain!Spec

\* Once validating_project is marked, every interrupted job that is run again
\* gets to the end of the chain.
ValidatedFinishes ==
    \A e \in Executors : marks[<<Validating, 0>>] > 0 ~> run[e].step = "done"

-----------------------------------------------------------------------------
(* The inductive invariant *)

Working == {"items", "called", "embedcases", "evalrun", "write", "markread", "markinsert"}

MarksOnce == \A u \in Units : marks[u] <= 1

MarkedInOrder ==
    \A j, k \in Stages : j < k /\ marks[<<k, 0>>] > 0 => marks[<<j, 0>>] > 0

\* The rows of synthesis and review share the transaction of their marker.
RowsMarked ==
    \A k \in Synthesizing \cup Reviewing, i \in Items :
        rows[<<k, i>>] > 0 => marks[<<k, i>>] > 0

\* A run is at the first stage that is not marked.
AtNextStage ==
    \A e \in Executors :
        /\ run[e].step # "off" => \A j \in Stages : j < run[e].stage => marks[<<j, 0>>] > 0
        /\ run[e].step \in Working => marks[<<run[e].stage, 0>>] = 0

\* The item in hand has no committed answer before it is written.
ItemInHand ==
    \A e \in Executors :
        LET r == run[e]
        IN  /\ r.item # 0 =>
                  /\ r.item \in r.todo
                  /\ marks[At(e)] = 0
                  /\ \/ r.step = "called" /\ rows[At(e)] = 0
                     \/ r.step \in {"markread", "markinsert"} /\ r.stage = Extracting
            /\ r.step = "called" => r.item # 0
            /\ r.item = 0 /\ r.step \in {"embedcases", "evalrun", "write", "markread", "markinsert"}
               => r.todo = {}
            /\ r.step = "embedcases" => r.item = 0 /\ r.stage = Baseline
            /\ r.step = "embedrules" => r.item = 0 /\ r.stage = Embedding
            /\ r.item = 0 /\ r.step \in {"markread", "markinsert"}
                  /\ r.stage \in {Validating} \cup Pruning \cup Compiling \cup Evaluating
               => rows[<<r.stage, 0>>] > 0

\* What is left to do is unanswered, what is not left to do is answered.
ToDoExact ==
    \A e \in Executors :
        LET r == run[e]
            k == run[e].stage
        IN  run[e].step \in Working =>
                /\ k = Extracting \/ k \in Evaluating =>
                      /\ \A i \in r.todo \ {r.item} : rows[<<k, i>>] = 0
                      /\ \A c \in Cases \ r.todo : Settled(<<k, c>>)
                /\ k \in Synthesizing => \A i \in Clusters \ r.todo : marks[<<k, i>>] > 0
                /\ k \in Reviewing =>
                      \A i \in Clusters \ r.todo :
                          rows[<<k - 2, i>>] > 0 => marks[<<k, i>>] > 0
                /\ k \notin AnswerStages \cup Evaluating => r.todo = {}

\* A run that is interrupted anywhere leaves the tables so that the next one
\* neither repeats nor omits an answer.
ResumeInv ==
    /\ AnswersOnce /\ MarkedMeansComplete
    /\ MarksOnce /\ MarkedInOrder /\ RowsMarked
    /\ AtNextStage /\ ItemInHand /\ ToDoExact
=============================================================================
