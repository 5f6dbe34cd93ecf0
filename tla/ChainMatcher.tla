---------------------------- MODULE ChainMatcher ----------------------------
(***************************************************************************)
(* worker/worker/chain_matcher.py: may a chain run now, and for this mail? *)
(* Pure operators, and beside them the reference each is compared with: a  *)
(* window is the set of minutes it names, a condition is satisfied when    *)
(* the pattern is found in the text.                                       *)
(*                                                                         *)
(* A text (sender, subject or body of a mail) is abstracted to the patterns *)
(* it contains and the patterns re.search finds in it.  Seconds are left   *)
(* out: both bounds are whole minutes, so the minute decides.              *)
(***************************************************************************)
EXTENDS Integers

CONSTANTS
    None,
    DayLength,      \* bound: minutes of a day (1440 in the code)
    Patterns,
    Uncompilable,   \* the patterns re.compile refuses
    Texts,
    EmptyText,      \* "", also what a missing header is read as
    Contains,       \* the patterns that occur in a text as they stand
    Finds           \* the patterns that re.search finds in a text

ASSUME DayAssumption == DayLength \in Nat \ {0}
ASSUME TextAssumption ==
    /\ EmptyText \in Texts
    /\ Contains \in [Texts -> SUBSET Patterns]
    /\ Finds \in [Texts -> SUBSET (Patterns \ Uncompilable)]
ASSUME NoneIsNoValue == None \notin Texts \cup Patterns \cup Int

Minutes == 0 .. DayLength - 1

\* The columns of models/action_chain.py that the gate reads.
GateColumns == [
    time_window_enabled : BOOLEAN,
    time_start : Minutes \cup {None},
    time_end : Minutes \cup {None},
    condition_match : {"all", "any"},
    sender_filter : Patterns \cup {None},
    sender_filter_mode : {"contains", "regex"},
    subject_regex : Patterns \cup {None},
    body_regex : Patterns \cup {None}]
-----------------------------------------------------------------------------
(* The code *)

\* Disabled, without one of its bounds, or with equal bounds, a window
\* restricts nothing.
Restricts(chain) ==
    /\ chain.time_window_enabled
    /\ None \notin {chain.time_start, chain.time_end}
    /\ chain.time_start # chain.time_end

\* Variant of IsWithinTimeWindow: the window over midnight is forgotten.
IsWithinTimeWindowSameDay(chain, now) ==
    Restricts(chain) => chain.time_start <= now /\ now < chain.time_end

IsWithinTimeWindow(chain, now) ==
    Restricts(chain) =>
        IF chain.time_start < chain.time_end
        THEN chain.time_start <= now /\ now < chain.time_end
        ELSE chain.time_start <= now \/ now < chain.time_end

\* A pattern that does not compile matches nothing.
RegexMatches(pattern, value) ==
    pattern \notin Uncompilable /\ pattern \in Finds[value]

\* The results list: an element for each condition that is set.
Results(chain, sender, subject, body) ==
    {IF chain.sender_filter_mode = "regex"
     THEN RegexMatches(chain.sender_filter, sender)
     ELSE chain.sender_filter \in Contains[sender]
        : c \in {chain.sender_filter} \ {None}}
    \cup {RegexMatches(c, subject) : c \in {chain.subject_regex} \ {None}}
    \cup {body # None /\ RegexMatches(c, body) : c \in {chain.body_regex} \ {None}}

MatchesConditions(chain, sender, subject, body) ==
    LET results == Results(chain, sender, subject, body)
    IN  results # {} =>
            IF chain.condition_match = "any" THEN TRUE \in results ELSE FALSE \notin results

ChainNeedsBody(chain) == chain.body_regex # None
-----------------------------------------------------------------------------
(* The reference *)

\* The minute d minutes after start, and how long a window lasts.
Later(start, d) == IF start + d < DayLength THEN start + d ELSE start + d - DayLength
WindowLength(start, end) == IF start < end THEN end - start ELSE DayLength - start + end

\* The minutes that pass from start until end strikes; the whole day if the
\* two are the same.
Window(start, end) == {Later(start, d) : d \in 0 .. WindowLength(start, end) - 1}

Allowed(chain) ==
    IF chain.time_window_enabled /\ chain.time_start # None /\ chain.time_end # None
    THEN Window(chain.time_start, chain.time_end)
    ELSE Minutes

\* The conditions that are set, and those that the mail satisfies.
SetConditions(chain) ==
    {c \in {"sender_filter", "subject_regex", "body_regex"} : chain[c] # None}

Satisfied(chain, mail) ==
    {c \in SetConditions(chain) :
        \/ c = "sender_filter" /\ chain.sender_filter_mode = "contains"
                               /\ chain[c] \in Contains[mail.sender]
        \/ c = "sender_filter" /\ chain.sender_filter_mode = "regex"
                               /\ chain[c] \in Finds[mail.sender]
        \/ c = "subject_regex" /\ chain[c] \in Finds[mail.subject]
        \/ c = "body_regex" /\ chain[c] \in Finds[mail.body]}

Accepts(chain, mail) ==
    \/ Satisfied(chain, mail) = SetConditions(chain)
    \/ chain.condition_match = "any" /\ Satisfied(chain, mail) # {}
=============================================================================
