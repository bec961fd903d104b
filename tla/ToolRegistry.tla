----------------------------- MODULE ToolRegistry -----------------------------
(***************************************************************************)
(* pkg/ai/agent/registry.go: the tools an agent may call.  Register looks  *)
(* at the tool before it takes the lock and stores it under the lock; Get  *)
(* and LLMTools read under the read lock.  A schema is a Go map, a         *)
(* reference: whoever holds it can change it.  Hence the cells here: the   *)
(* map a tool owns, the map the registry keeps, and the map a reader was   *)
(* given.  cloneSchema copies one cell to another (which is what it does   *)
(* for schemas built of objects, lists and strings).                       *)
(***************************************************************************)
EXTENDS Naturals

CONSTANTS
  Tools,          \* tool implementations
  ToolNames,      \* trimmed, not empty
  NameOf,         \* per tool: its trimmed name, or Unnamed
  Schemas, ValidSchemas,
  Registrants,    \* goroutines that call Register
  Readers,        \* runs that read the registry
  Unnamed, Nobody

ASSUME RegistryAssumption ==
  /\ NameOf \in [Tools -> ToolNames \cup {Unnamed}]
  /\ Unnamed \notin ToolNames
  /\ ValidSchemas \subseteq Schemas
  /\ Nobody \notin Tools

OwnCell(tool)          == <<"own", tool>>
KeptCell(name)         == <<"kept", name>>
CopyCell(reader, name) == <<"copy", <<reader, name>>>>

OwnCells  == {OwnCell(tool) : tool \in Tools}
KeptCells == {KeptCell(name) : name \in ToolNames}
CopyCells == {CopyCell(reader, name) : reader \in Readers, name \in ToolNames}
Cells     == OwnCells \cup KeptCells \cup CopyCells

VARIABLES
  schema,        \* what each cell holds
  registered,    \* tools: per name its tool and the cell of its parameters
  registering,   \* per registrant: the tool it has validated, or Nobody
  offers         \* what LLMTools told each reader

registryVars == <<schema, registered, registering, offers>>

Free == [tool |-> Nobody, parameters |-> <<>>]

\* The cells of tools hold whatever their authors wrote; a cell that is not in
\* use yet holds anything, here something valid.
RegistryInit ==
  /\ schema \in [Cells -> Schemas]
  /\ \A cell \in KeptCells \cup CopyCells : schema[cell] \in ValidSchemas
  /\ registered = [name \in ToolNames |-> Free]
  /\ registering = [registrant \in Registrants |-> Nobody]
  /\ offers = [reader \in Readers |-> {}]

Taken(name) == registered[name] # Free

\* The parameters kept for a name.
Contract(name) == schema[registered[name].parameters]

-------------------------------------------------------------------------------

\* validateToolRegistration
Registrable(tool) ==
  /\ NameOf[tool] # Unnamed
  /\ schema[OwnCell(tool)] \in ValidSchemas

RegisterRejected(registrant, tool) ==
  /\ registering[registrant] = Nobody
  /\ ~Registrable(tool)
  /\ UNCHANGED registryVars

Validates(registrant, tool) ==
  /\ registering[registrant] = Nobody
  /\ Registrable(tool)
  /\ registering' = [registering EXCEPT ![registrant] = tool]
  /\ UNCHANGED <<schema, registered, offers>>

\* Mutant: the caller's own map is kept.
KeepsOwn(tool, name) ==
  /\ registered' = [registered EXCEPT ![name] =
                      [tool |-> tool, parameters |-> OwnCell(tool)]]
  /\ UNCHANGED schema

\* The caller's schema is cloned into the registry.
Keeps(tool, name) ==
  /\ registered' = [registered EXCEPT ![name] =
                      [tool |-> tool, parameters |-> KeptCell(name)]]
  /\ schema' = [schema EXCEPT ![KeptCell(name)] = schema[OwnCell(tool)]]

\* Mutant: a name is looked for before the lock is taken, not under it.
NameIsFreeUnlocked(name) == TRUE

NameIsFree(name) == ~Taken(name)

Done(registrant) == registering' = [registering EXCEPT ![registrant] = Nobody]

Stores(registrant) ==
  LET tool == registering[registrant] IN
  /\ tool # Nobody
  /\ NameIsFree(NameOf[tool])
  /\ Keeps(tool, NameOf[tool])
  /\ Done(registrant)
  /\ UNCHANGED offers

RejectsDuplicate(registrant) ==
  LET tool == registering[registrant] IN
  /\ tool # Nobody
  /\ ~NameIsFree(NameOf[tool])
  /\ Done(registrant)
  /\ UNCHANGED <<schema, registered, offers>>

Copied(reader, names) ==
  schema' = [cell \in Cells |->
               IF \E name \in names : cell = CopyCell(reader, name)
               THEN Contract(CHOOSE name \in names : cell = CopyCell(reader, name))
               ELSE schema[cell]]

\* Get: the copy a reader is given of one tool.
Get(reader, name) ==
  /\ Taken(name)
  /\ Copied(reader, {name})
  /\ UNCHANGED <<registered, registering, offers>>

GetUnknown(reader, name) ==
  /\ ~Taken(name)
  /\ UNCHANGED registryVars

\* LLMTools: all tools of one moment, and copies of their parameters.
LLMTools(reader) ==
  LET names == {name \in ToolNames : Taken(name)} IN
  /\ Copied(reader, names)
  /\ offers' = [offers EXCEPT ![reader] =
       {[name |-> name, parameters |-> Contract(name)] : name \in names}]
  /\ UNCHANGED <<registered, registering>>

\* Callers change the maps they hold: the copies they were given at any time,
\* their own while they do not pass it to Register (a data race of theirs).
CallerEdits(cell, parameters) ==
  /\ \/ cell \in CopyCells
     \/ \E tool \in Tools :
          /\ cell = OwnCell(tool)
          /\ \A registrant \in Registrants : registering[registrant] # tool
  /\ schema' = [schema EXCEPT ![cell] = parameters]
  /\ UNCHANGED <<registered, registering, offers>>

RegistryNext ==
  \/ \E registrant \in Registrants :
       \/ \E tool \in Tools : Validates(registrant, tool)
       \/ \E tool \in Tools : RegisterRejected(registrant, tool)
       \/ Stores(registrant)
       \/ RejectsDuplicate(registrant)
  \/ \E reader \in Readers :
       \/ \E name \in ToolNames : Get(reader, name)
       \/ \E name \in ToolNames : GetUnknown(reader, name)
       \/ LLMTools(reader)
  \/ \E cell \in OwnCells \cup CopyCells, parameters \in Schemas :
       CallerEdits(cell, parameters)

RegistrySpec == RegistryInit /\ [][RegistryNext]_registryVars

-------------------------------------------------------------------------------
(* Properties. *)

\* Types; a name is taken by a tool of that name, and its parameters are in a
\* map that nobody else holds.
RegistryTypeOK ==
  /\ schema \in [Cells -> Schemas]
  /\ registered \in [ToolNames -> [tool : Tools, parameters : Cells] \cup {Free}]
  /\ \A name \in ToolNames : Taken(name) =>
       /\ NameOf[registered[name].tool] = name
       /\ registered[name].parameters = KeptCell(name)
  /\ registering \in [Registrants -> Tools \cup {Nobody}]
  /\ offers \in [Readers -> SUBSET [name : ToolNames, parameters : Schemas]]

\* registry.go:19-20: whoever edits whichever map it holds, and however many
\* register the same name at once, a name keeps the first tool that took it
\* and the parameters that tool had then.
ContractFrozen ==
  [][\A name \in ToolNames :
       Taken(name) => /\ registered'[name] = registered[name]
                      /\ Contract(name)' = Contract(name)]_registryVars

\* registry.go:35-37: no tool is offered to a model without an input contract,
\* although it is looked at before the lock is taken.
ContractValid ==
  \A name \in ToolNames : Taken(name) => Contract(name) \in ValidSchemas

\* What a model was told of the tools holds when it calls them later: each is
\* still found, with the parameters it was offered with.
OfferedAreCallable ==
  \A reader \in Readers : \A offer \in offers[reader] :
    /\ Taken(offer.name)
    /\ offer.parameters = Contract(offer.name)

\* What the registry promises: of each name one contract, looked at, its own,
\* unchanged, and still there when a model asks for what it was offered.
ContractsHold ==
  [](RegistryTypeOK /\ ContractValid /\ OfferedAreCallable) /\ ContractFrozen
===============================================================================
