----------------------------- MODULE ChainRecorder -----------------------------
(***************************************************************************)
(* pkg/ai/obs/chain_recorder.go: the chain of facts observed of a request, *)
(* kept under its request id.  Record validates its input and builds the   *)
(* chain without a lock, stores it under the lock and returns it too;      *)
(* FindByRequestID reads under the read lock.  A chain holds slices, which *)
(* are references: whoever holds one can change it, hence the cells.  A    *)
(* text is a word and whether it is padded; strings.TrimSpace takes the    *)
(* padding away.                                                           *)
(***************************************************************************)
EXTENDS Naturals, Sequences

CONSTANTS
  ChainInputs,  \* what callers pass to Record
  ChainUsers,   \* goroutines that call Record and FindByRequestID
  Blank,        \* the word of an empty text
  Nothing

Text(word)   == [word |-> word, padded |-> FALSE]
Padded(word) == [word |-> word, padded |-> TRUE]
Trim(text)   == Text(text.word)
Empty        == Text(Blank)
IsBlank(text) == Trim(text) = Empty

RequestIDs == LET words == {input.identity.request.word : input \in ChainInputs}
              IN  {Text(word) : word \in words} \cup {Padded(word) : word \in words}

ChainCell(request) == <<"kept", request>>
HeldCell(user)     == <<"own", user>>
ChainCells == {ChainCell(request) : request \in RequestIDs}
              \cup {HeldCell(user) : user \in ChainUsers}

VARIABLES
  stored,     \* what each cell holds
  byReqID,    \* request ids that have a chain
  recording,  \* per user: the chain it is recording, or Nothing
  holding,    \* per user: the cell of the slices it goes on with, or Nothing:
              \* those it passed to Record, or those of a chain it was given
  latest      \* history: the chain recorded last under each request id

chainVars == <<stored, byReqID, recording, holding, latest>>

ChainInit ==
  /\ stored = [cell \in ChainCells |-> Nothing]
  /\ byReqID = {}
  /\ recording = [user \in ChainUsers |-> Nothing]
  /\ holding = [user \in ChainUsers |-> Nothing]
  /\ latest = [request \in RequestIDs |-> Nothing]

-------------------------------------------------------------------------------

Outcomes == {"success", "failure", "terminated", "degraded"}
NeedsExplanation == Outcomes \ {"success"}

\* validateRequestObservationChainInput, for a context that has not ended.
\* Whether the stages belong to the request is not looked at.
Recordable(input) ==
  /\ \A field \in {"request", "serviceTrace", "span", "aiTrace"} :
       ~IsBlank(input.identity[field])
  /\ ~IsBlank(input.feature)
  /\ input.services \o input.observations \o input.evidence # <<>>
  /\ input.outcome.word \in Outcomes
  /\ input.outcome.word \in NeedsExplanation => ~IsBlank(input.explanation)

\* buildRequestObservationChain: texts are kept as they came, padding included.
BuildChain(input) ==
  [identity    |-> input.identity,
   outcome     |-> input.outcome,
   failure     |-> input.failure,
   explanation |-> input.explanation,
   stages      |-> input.services \o input.observations \o input.evidence]

\* A request id is a text, and Nothing is no chain.
ASSUME ChainAssumption ==
  \A input \in ChainInputs :
    /\ input.identity.request \in RequestIDs
    /\ BuildChain(input) # Nothing

RecordRejected(user, input) ==
  /\ recording[user] = Nothing
  /\ ~Recordable(input)
  /\ UNCHANGED chainVars

\* The context ended before the call.
RecordCancelled(user) ==
  /\ recording[user] = Nothing
  /\ UNCHANGED chainVars

\* The user keeps the slices it passed, the chain has copies of them.
Builds(user, input) ==
  /\ recording[user] = Nothing
  /\ Recordable(input)
  /\ recording' = [recording EXCEPT ![user] = BuildChain(input)]
  /\ stored' = [stored EXCEPT ![HeldCell(user)] = BuildChain(input)]
  /\ holding' = [holding EXCEPT ![user] = HeldCell(user)]
  /\ UNCHANGED <<byReqID, latest>>

\* Mutant: the chain is built on the very slices that the caller passed.
BuiltShared(user) == [recording[user] EXCEPT !.stages = stored[HeldCell(user)].stages]

\* The clones in buildRequestObservationChain: nobody else can reach them.
Built(user) == recording[user]

\* Mutant: the caller is given the very slices the recorder keeps.
CloneCellKept(user, request) == ChainCell(request)

\* cloneRequestObservationChain: what a caller is given is its own.
CloneCell(user, request) == HeldCell(user)

\* The request id is used as it came: only a lookup trims it.  The user goes on
\* with the slices it passed, or with the chain that Record returned.
Records(user) ==
  LET chain   == Built(user)
      request == recording[user].identity.request
      clone   == CloneCell(user, request)
  IN
  /\ recording[user] # Nothing
  /\ byReqID' = byReqID \cup {request}
  /\ latest' = [latest EXCEPT ![request] = chain]
  /\ recording' = [recording EXCEPT ![user] = Nothing]
  /\ \/ /\ stored' = [stored EXCEPT ![ChainCell(request)] = chain]
        /\ UNCHANGED holding
     \/ /\ stored' = [stored EXCEPT ![ChainCell(request)] = chain, ![clone] = chain]
        /\ holding' = [holding EXCEPT ![user] = clone]

\* Mutant: a lookup takes the request id as it comes.
LookupKeyAsGiven(request) == request

LookupKey(request) == Trim(request)

Found(request) == LookupKey(request) \in byReqID

FindByRequestID(user, request) ==
  LET clone == CloneCell(user, LookupKey(request)) IN
  /\ recording[user] = Nothing
  /\ Found(request)
  /\ stored' = [stored EXCEPT ![clone] = stored[ChainCell(LookupKey(request))]]
  /\ holding' = [holding EXCEPT ![user] = clone]
  /\ UNCHANGED <<byReqID, recording, latest>>

FindsNone(user, request) ==
  /\ recording[user] = Nothing
  /\ ~Found(request)
  /\ holding' = [holding EXCEPT ![user] = Nothing]
  /\ UNCHANGED <<stored, byReqID, recording, latest>>

\* A user cuts the stages of what it holds, in place; others of its goroutines
\* may do so while Record waits for the lock.
UserEdits(user) ==
  /\ holding[user] # Nothing
  /\ stored' = [stored EXCEPT ![holding[user]].stages = <<>>]
  /\ UNCHANGED <<byReqID, recording, holding, latest>>

ChainNext ==
  \E user \in ChainUsers :
    \/ \E input \in ChainInputs : RecordRejected(user, input)
    \/ RecordCancelled(user)
    \/ \E input \in ChainInputs : Builds(user, input)
    \/ Records(user)
    \/ \E request \in RequestIDs : FindByRequestID(user, request)
    \/ \E request \in RequestIDs : FindsNone(user, request)
    \/ UserEdits(user)

ChainSpec == ChainInit /\ [][ChainNext]_chainVars

-------------------------------------------------------------------------------
(* Properties. *)

\* Types; a chain under construction has passed validation, and what a user
\* holds is its own.
ChainTypeOK ==
  LET chains == {BuildChain(input) : input \in {i \in ChainInputs : Recordable(i)}} IN
  /\ byReqID \subseteq RequestIDs
  /\ recording \in [ChainUsers -> chains \cup {Nothing}]
  /\ latest \in [RequestIDs -> chains \cup {Nothing}]
  /\ \A user \in ChainUsers : holding[user] \in {Nothing, HeldCell(user)}
  /\ \A cell \in ChainCells : stored[cell] # Nothing =>
       \E chain \in chains : stored[cell] \in {chain, [chain EXCEPT !.stages = <<>>]}

\* chain_recorder.go:118-122: what goes in, what Record returns and what a
\* lookup returns are copies.  However users overwrite each other and edit what
\* they passed and what they were given, each request id keeps the chain that was
\* recorded last under it, whole and explained.
KeptAsRecorded ==
  \A request \in byReqID :
    LET chain == stored[ChainCell(request)] IN
    /\ chain = latest[request]
    /\ chain.identity.request = request
    /\ chain.stages # <<>>
    /\ chain.outcome.word \in NeedsExplanation => ~IsBlank(chain.explanation)

\* chain_recorder.go:131: a chain recorded under a request id without padding
\* is found however the id is spelled by whoever looks for it.  Line 118
\* keeps the padding, so a padded one is out of reach: a lookup finds nothing,
\* or the chain of the unpadded id.
FoundUnlessPadded ==
  \A recorded \in RequestIDs, asked \in RequestIDs :
    latest[recorded] # Nothing /\ Trim(asked) = Trim(recorded) =>
      \/ Found(asked)
      \/ recorded.padded

\* What the recorder promises: the chain of a request is found as it was
\* recorded last, whoever overwrites and edits what.
ChainsKept == ChainTypeOK /\ KeptAsRecorded /\ FoundUnlessPadded
===============================================================================
