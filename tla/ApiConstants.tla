---------------------------- MODULE ApiConstants ----------------------------
(***************************************************************************)
(* The parameters of the modules about the API: what its requests name.    *)
(***************************************************************************)
EXTENDS Integers, Sequences, FiniteSets

CONSTANTS
    None,
    Requests,       \* requests that may be under way at the same time
    (* UserApi *)
    Users,          \* the users there may be; an id is never used again
    (* ChainsApi *)
    Steps,          \* the steps there may be; an id is never used again
    Orders,         \* the payloads step_ids of a reorder request
    Patterns,
    Uncompilable,   \* the patterns re.compile refuses
    Unset,          \* a field that the payload does not mention
    (* PrinterApi *)
    Printers,       \* the printers there may be; an id is never used again
    Queues,         \* names of CUPS queues
    Folded,         \* [Queues -> Queues], one name for all that differ in case only
    Slugs,          \* names that _slugify_queue_name makes of a printer's name
    Uris            \* device URIs

ASSUME NoneAssumption ==
    None \notin Users \cup {"admin", "user"} \cup Steps \cup Patterns \cup Int
             \cup Printers \cup Queues \cup Uris

ASSUME UsersAssumption == IsFiniteSet(Users)

ASSUME StepsAssumption == IsFiniteSet(Steps)
ASSUME OrdersAssumption == Orders \subseteq Seq(Steps)
ASSUME PatternsAssumption == Uncompilable \subseteq Patterns
ASSUME UnsetAssumption == Unset \notin Patterns \cup {None, "contains", "regex"}

ASSUME SlugsAssumption == Slugs \subseteq Queues
ASSUME FoldedAssumption == Folded \in [Queues -> Queues]
=============================================================================
