----------------------------- MODULE Documents ------------------------------
(***************************************************************************)
(* The memory documents of one scope: versions, administrative writes that *)
(* are repeated after a lost answer, an agent's write between its private  *)
(* review and its execution, restoration, deletion, forgetting, and the    *)
(* semantic index built behind them.  A transaction is one action.  A      *)
(* content is the number of the write that produced it.                    *)
(***************************************************************************)
EXTENDS Integers, FiniteSets, Sequences

CONSTANTS
  Docs,        \* document identities (numbers)
  AdminActs,   \* idempotency keys of administrative writes
  MaxWrite,    \* writes explored
  MaxForget,   \* epochs explored
  MaxFence,    \* attempts of the agent's run
  MaxRequest   \* request versions of the agent's run

ASSUME DocumentsAssumption ==
  MaxWrite \in Nat /\ MaxForget \in Nat /\ MaxFence \in Nat \ {0} /\ MaxRequest \in Nat \ {0}

VARIABLES
  mepoch,    \* epoch of the scope
  doc,       \* agent_memories
  archive,   \* agent_memory_versions
  cmds,      \* agent_memory_commands: epoch and action
  sent,      \* per administrative key: the change it stands for
  agent,     \* the agent's run: fence and request version
  prep,      \* what the reviewer of the current attempt was shown
  review,    \* agent_memory_reviews: the recorded judgment of the agent's call
  reading,   \* the index job between reading a document and storing its vector
  index,     \* agent_memory_embeddings: version and content embedded
  writes,    \* history: writes so far
  refused,   \* history: a key whose write was committed was refused later in the same epoch
  unjudged   \* history: the agent changed a protected document other than as judged

dvars == <<mepoch, doc, archive, cmds, sent, agent, prep, review, reading, index, writes, refused, unjudged>>

Absent == [ver |-> 0, text |-> 0, explicit |-> FALSE]
Unsent == [op |-> "none", d |-> 0, ver |-> 0]
NoReview == [hash |-> <<>>, explicit |-> FALSE, shown |-> <<>>]
NoRead == [d |-> 0, ver |-> 0, text |-> 0]

DocumentsInit ==
  /\ mepoch = 0 /\ doc = [d \in Docs |-> Absent] /\ archive = {} /\ cmds = {}
  /\ sent = [k \in AdminActs |-> Unsent] /\ agent = [fence |-> 1, rv |-> 1]
  /\ prep = NoReview /\ review = NoReview /\ reading = NoRead
  /\ index = [d \in Docs |-> [ver |-> 0, text |-> 0]]
  /\ writes = 0 /\ refused = FALSE /\ unjudged = FALSE

(***************************************************************************)
(* applyMemoryChanges.                                                     *)
(***************************************************************************)
Changes == [op : {"create"}, d : Docs, ver : {0}] \cup [op : {"update", "delete"}, d : Docs, ver : 1 .. MaxWrite]

(* The version the change expects, and the protection of explicit          *)
(* documents.                                                              *)
Permitted(c, explicit) ==
  /\ doc[c.d].ver = c.ver
  /\ c.op # "create" /\ doc[c.d].explicit => explicit
  /\ c.op = "delete" => explicit

(* The key survives the epoch its own deletion starts.                     *)
CommandOldEpoch(c, k) == [ep |-> mepoch, act |-> k]
Command(c, k) == [ep |-> IF c.op = "delete" THEN mepoch + 1 ELSE mepoch, act |-> k]

(* Forgetting takes the commands and the reviews with it; deleting a       *)
(* document, its versions and its vector.                                  *)
Removed(D) ==
  /\ doc' = [d \in Docs |-> IF d \in D THEN Absent ELSE doc[d]]
  /\ archive' = {a \in archive : a.d \notin D}
  /\ index' = [d \in Docs |-> IF d \in D THEN [ver |-> 0, text |-> 0] ELSE index[d]]

Write(c, explicit, k) ==
  /\ writes' = writes + 1
  /\ IF c.op = "delete"
     THEN /\ Removed({c.d}) /\ mepoch' = mepoch + 1 /\ review' = NoReview
          /\ cmds' = {Command(c, k)}
     ELSE /\ doc' = [doc EXCEPT ![c.d] = [ver |-> @.ver + 1, text |-> writes + 1, explicit |-> explicit]]
          /\ archive' = IF c.op = "update" THEN archive \cup {[d |-> c.d, ver |-> c.ver, text |-> doc[c.d].text]} ELSE archive
          /\ cmds' = cmds \cup {Command(c, k)}
          /\ UNCHANGED <<mepoch, index, review>>

Room(c) == writes < MaxWrite /\ (c.op = "delete" => mepoch < MaxForget)

(* An administrative write, first sent or sent again; a forgetting or      *)
(* deletion by somebody else makes its key new again.                      *)
AdminSends(k, c) ==
  /\ sent[k] = Unsent /\ Permitted(c, TRUE) /\ Room(c)
  /\ sent' = [l \in AdminActs |-> IF l = k THEN c ELSE IF c.op = "delete" THEN Unsent ELSE sent[l]]
  /\ Write(c, TRUE, k)
  /\ UNCHANGED <<agent, prep, reading, refused, unjudged>>

Known(k) == [ep |-> mepoch, act |-> k] \in cmds

AdminRepeats(k) ==
  /\ sent[k] # Unsent
  /\ IF Known(k) \/ ~Permitted(sent[k], TRUE)
     THEN /\ refused' = (refused \/ ~Known(k))
          /\ UNCHANGED <<mepoch, doc, archive, cmds, review, index, writes>>
     ELSE Room(sent[k]) /\ Write(sent[k], TRUE, k) /\ UNCHANGED refused
  /\ UNCHANGED <<sent, agent, prep, reading, unjudged>>

(* restoreMemory: the text of an archived version becomes a new version.   *)
Restore(a) ==
  /\ doc[a.d].ver > 0 /\ writes < MaxWrite
  /\ writes' = writes + 1
  /\ doc' = [doc EXCEPT ![a.d] = [ver |-> @.ver + 1, text |-> a.text, explicit |-> TRUE]]
  /\ archive' = archive \cup {[d |-> a.d, ver |-> doc[a.d].ver, text |-> doc[a.d].text]}
  /\ UNCHANGED <<mepoch, cmds, sent, agent, prep, review, reading, index, refused, unjudged>>

(* forget: everything in the scope.  Keys used before are new again.       *)
ForgetScope ==
  /\ mepoch < MaxForget /\ mepoch' = mepoch + 1
  /\ Removed(Docs) /\ cmds' = {} /\ review' = NoReview
  /\ sent' = [k \in AdminActs |-> Unsent]
  /\ UNCHANGED <<agent, prep, reading, writes, refused, unjudged>>

(***************************************************************************)
(* The agent's call: preview, judgment by another model, execution.        *)
(***************************************************************************)
(* What the preview hash binds.                                            *)
HashDocument(c) == <<c, doc[c.d], mepoch>>
Hash(c) == <<c, doc[c.d], mepoch, agent.fence, agent.rv>>
Shown(c) == <<c, doc[c.d], mepoch, agent.fence, agent.rv>>

(* The run is as old as the scope: any forgetting since makes it too old.   *)
PrepareReview(c) ==
  /\ doc[c.d].ver = c.ver /\ mepoch = 0
  /\ prep' = [hash |-> Hash(c), explicit |-> FALSE, shown |-> Shown(c)]
  /\ UNCHANGED <<mepoch, doc, archive, cmds, sent, agent, review, reading, index, writes, refused, unjudged>>

RecordReview(explicit) ==
  /\ prep # NoReview /\ prep.hash = Hash(prep.shown[1])
  /\ review' = [prep EXCEPT !.explicit = explicit] /\ prep' = NoReview
  /\ UNCHANGED <<mepoch, doc, archive, cmds, sent, agent, reading, index, writes, refused, unjudged>>

AgentApplies(c) ==
  /\ review # NoReview /\ review.hash = Hash(c) /\ mepoch = 0
  /\ Permitted(c, review.explicit) /\ Room(c)
  /\ unjudged' = (unjudged \/ (doc[c.d].explicit /\ review.shown # Shown(c)))
  /\ Write(c, review.explicit, "agent")
  /\ sent' = IF c.op = "delete" THEN [k \in AdminActs |-> Unsent] ELSE sent
  /\ UNCHANGED <<agent, prep, reading, refused>>

Revised == agent.rv < MaxRequest /\ agent' = [agent EXCEPT !.rv = @ + 1]
           /\ UNCHANGED <<mepoch, doc, archive, cmds, sent, prep, review, reading, index, writes, refused, unjudged>>
Reclaimed == agent.fence < MaxFence /\ agent' = [agent EXCEPT !.fence = @ + 1] /\ prep' = NoReview
             /\ UNCHANGED <<mepoch, doc, archive, cmds, sent, review, reading, index, writes, refused, unjudged>>

(***************************************************************************)
(* SemanticMemory.refresh: read, embed, check again, store.                *)
(***************************************************************************)
IndexRead(d) ==
  /\ reading = NoRead /\ doc[d].ver > 0 /\ index[d].ver # doc[d].ver
  /\ reading' = [d |-> d, ver |-> doc[d].ver, text |-> doc[d].text]
  /\ UNCHANGED <<mepoch, doc, archive, cmds, sent, agent, prep, review, index, writes, refused, unjudged>>

UnchangedId == doc[reading.d].ver > 0
Unchanged == doc[reading.d].ver = reading.ver /\ doc[reading.d].text = reading.text

IndexStore ==
  /\ reading # NoRead /\ reading' = NoRead
  /\ index' = IF Unchanged THEN [index EXCEPT ![reading.d] = [ver |-> doc[reading.d].ver, text |-> reading.text]]
              ELSE index
  /\ UNCHANGED <<mepoch, doc, archive, cmds, sent, agent, prep, review, writes, refused, unjudged>>

DocumentsNext ==
  \/ \E k \in AdminActs : AdminRepeats(k) \/ \E c \in Changes : AdminSends(k, c)
  \/ \E a \in archive : Restore(a)
  \/ \E c \in Changes : PrepareReview(c) \/ AgentApplies(c)
  \/ \E explicit \in BOOLEAN : RecordReview(explicit)
  \/ \E d \in Docs : IndexRead(d)
  \/ ForgetScope \/ Revised \/ Reclaimed \/ IndexStore

DocumentsSpec == DocumentsInit /\ [][DocumentsNext]_dvars

DocumentsTypeOK ==
  /\ mepoch \in 0 .. MaxForget /\ writes \in 0 .. MaxWrite
  /\ doc \in [Docs -> [ver : 0 .. MaxWrite, text : 0 .. MaxWrite, explicit : BOOLEAN]]
  /\ archive \subseteq [d : Docs, ver : 0 .. MaxWrite, text : 0 .. MaxWrite]
  /\ index \in [Docs -> [ver : 0 .. MaxWrite, text : 0 .. MaxWrite]]
  /\ sent \in [AdminActs -> Changes \cup {Unsent}]
  /\ agent \in [fence : 1 .. MaxFence, rv : 1 .. MaxRequest]
  /\ reading \in [d : Docs \cup {0}, ver : 0 .. MaxWrite, text : 0 .. MaxWrite]
  /\ refused \in BOOLEAN /\ unjudged \in BOOLEAN

(***************************************************************************)
(* What the store promises.                                                *)
(***************************************************************************)
(* An administrator that repeats a write because the answer was lost gets  *)
(* the result, not an error, even when the write itself started a new      *)
(* epoch, and whatever was written since, unless somebody forgot or        *)
(* deleted since.                                                          *)
RepeatsAnswered == ~refused

(* A document a person wrote is changed by an agent only as the reviewer   *)
(* judged it: the same document version, request version, attempt and      *)
(* epoch that the reviewer was shown.                                      *)
ChangedAsJudged == ~unjudged

(* A vector that search would use for a document was computed from the     *)
(* text the document has.                                                  *)
IndexCurrent == \A d \in Docs : index[d].ver > 0 /\ index[d].ver = doc[d].ver => index[d].text = doc[d].text

(* memory/store.ts, review.ts, semantic.ts: a repeated write is answered,  *)
(* a protected document changes only as judged, a stored vector is of the  *)
(* version it names.                                                       *)
DocumentsSafe == DocumentsTypeOK /\ RepeatsAnswered /\ ChangedAsJudged /\ IndexCurrent
=============================================================================
