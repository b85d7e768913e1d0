----------------------------- MODULE MatchRules -----------------------------
(***************************************************************************)
(* Match rules: MatchRule::parse, MatchRule::matches and its variant       *)
(* without the destination, a client's ClientMatchRules and the choice of  *)
(* the clients a signal is forwarded to (match_rules.rs and the forwarding *)
(* loop of handle_bus_message).                                            *)
(*                                                                         *)
(* A string is a sequence of tokens: the five characters the code looks    *)
(* for (= , ' / .), the blank, letters, and each key as one token.  The    *)
(* parser is a loop, and here one step per turn of the loop.  What a rule  *)
(* SHOULD mean is said from the pairs its text was written from, never     *)
(* from the text: Asks and Accepts below are the reference.                *)
(***************************************************************************)
EXTENDS Integers, Sequences, SequencesExt, FiniteSetsExt, TLC

CONSTANTS Written,      \* the rules clients write: [pairs, style]
          Messages,     \* the signals the upstream buses deliver
          Mux,          \* the multiplexer's unique name upstream, a string
          None,         \* an absent header field
          MaxRules,     \* bound: rules the client holds
          MaxPairs      \* bound: pairs in the rules it holds

VARIABLES rules,        \* ClientMatchRules.rules, in order of arrival
          written,      \* the rule being added, as it was written
          rest,         \* remaining, in MatchRule::parse
          rule,         \* result, in MatchRule::parse
          pc,           \* "idle", "parse", or how the last parse ended
          held          \* history: the written rules added and not removed

vars == <<rules, written, rest, rule, pc, held>>

Nothing == [pairs |-> <<>>, style |-> "bare"]
Styles == {"quoted", "bare", "spaced", "unclosed", "no value"}

ASSUME MatchRulesAssumption ==
    /\ MaxRules \in Nat \ {0} /\ MaxPairs \in Nat
    /\ \A w \in Written : w.style \in Styles
    /\ Mux # None

-----------------------------------------------------------------------------
(* Keys and rules.                                                         *)

\* Header filters compared as strings.
Exact == {"type", "sender", "interface", "member", "path"}
Named == Exact \cup {"path_namespace", "destination", "arg0namespace"}

\* The number that argN and argNpath spell; -1 when it is no number.
ArgKeys == ("arg0" :> 0) @@ ("arg1" :> 1) @@ ("arg63" :> 63) @@ ("arg64" :> 64)
           @@ ("arg1namespace" :> -1)
ArgPathKeys == ("arg0path" :> 0) @@ ("arg1path" :> 1) @@ ("arg256path" :> 256)
               @@ ("argpath" :> -1)

\* num_str.parse::<u8>() and the test for more than 63.
ValidIndex(n) == n \in 0..63

\* A key that starts with "arg" and does not spell an argument's index.
InvalidArgIndex(key) ==
    /\ key # <<>> /\ key # <<"arg0namespace">>
    /\ key[1] \in DOMAIN ArgKeys \cup DOMAIN ArgPathKeys \cup {"arg0namespace"}
    /\ ~ (Len(key) = 1 /\ ValidIndex((ArgKeys @@ ArgPathKeys)[key[1]]))

Empty == [named |-> <<>>, args |-> <<>>, arg_paths |-> <<>>]

-----------------------------------------------------------------------------
(* The parser.                                                             *)

Find(s, t) == SelectInSeq(s, LAMBDA x : x = t)
StartsWith(s, t) == s # <<>> /\ s[1] = t
EndsWith(s, t) == s # <<>> /\ s[Len(s)] = t
From(s, n) == SubSeq(s, n, Len(s))
TrimStart(s) ==
    LET n == SelectInSeq(s, LAMBDA x : x # " ") IN IF n = 0 THEN <<>> ELSE From(s, n)
Trim(s) == Reverse(TrimStart(Reverse(TrimStart(s))))

\* The value at the head of s and what follows it; an empty answer is an unclosed quote.
Value(s) ==
    IF StartsWith(s, "'")
    THEN LET end == Find(Tail(s), "'")
         IN IF end = 0 THEN <<>> ELSE <<SubSeq(s, 2, end), From(s, end + 2)>>
    ELSE LET comma == Find(s, ",")
             end == IF comma = 0 THEN Len(s) + 1 ELSE comma
         IN <<Trim(SubSeq(s, 1, end - 1)), From(s, end)>>

\* Slip: of two pairs with one key the first is kept.
SetFirst(r, key, value) ==
    CASE Len(key) = 1 /\ key[1] \in Named ->
             [r EXCEPT !.named = @ @@ (key[1] :> value)]
      [] Len(key) = 1 /\ key[1] \in DOMAIN ArgPathKeys ->
             [r EXCEPT !.arg_paths = @ @@ (ArgPathKeys[key[1]] :> value)]
      [] Len(key) = 1 /\ key[1] \in DOMAIN ArgKeys ->
             [r EXCEPT !.args = @ @@ (ArgKeys[key[1]] :> value)]
      [] OTHER -> r

\* The match on the key. Unknown keys (and eavesdrop, which no filter reads) set nothing.
Set(r, key, value) ==
    CASE Len(key) = 1 /\ key[1] \in Named ->
             [r EXCEPT !.named = (key[1] :> value) @@ @]
      [] Len(key) = 1 /\ key[1] \in DOMAIN ArgPathKeys ->
             [r EXCEPT !.arg_paths = (ArgPathKeys[key[1]] :> value) @@ @]
      [] Len(key) = 1 /\ key[1] \in DOMAIN ArgKeys ->
             [r EXCEPT !.args = (ArgKeys[key[1]] :> value) @@ @]
      [] OTHER -> r

End(how) == pc' = how /\ UNCHANGED <<rest, rule>>

\* One turn of the loop: skip blanks and one comma, split at '=', take the value, set it.
Pair ==
    /\ pc = "parse" /\ rest # <<>>
    /\ LET t == TrimStart(rest)
           s == IF StartsWith(t, ",") THEN TrimStart(Tail(t)) ELSE t
           eq == Find(s, "=")
           key == Trim(SubSeq(s, 1, eq - 1))
           value == Value(TrimStart(From(s, eq + 1)))
       IN IF s = <<>> THEN End("ok")
          ELSE IF eq = 0 \/ value = <<>> \/ InvalidArgIndex(key) THEN End("error")
          ELSE rest' = value[2] /\ rule' = Set(rule, key, value[1]) /\ UNCHANGED pc
    /\ UNCHANGED <<rules, written, held>>

\* The loop ends with nothing left: Ok(result).
Parsed == pc = "parse" /\ rest = <<>> /\ End("ok") /\ UNCHANGED <<rules, written, held>>

-----------------------------------------------------------------------------
(* The client's rules.                                                     *)

\* How a client spells a rule: key='value' or key=value, with or without blanks, or wrongly
\* without the closing quote or the '='.
RenderPair(p, style) ==
    CASE style = "quoted" -> <<p.key, "=", "'">> \o p.value \o <<"'">>
      [] style = "bare"   -> <<p.key, "=">> \o p.value
      [] style = "spaced" -> <<" ", p.key, " ", "=", " ", "'">> \o p.value \o <<"'", " ">>
      [] style = "unclosed" -> <<p.key, "=", "'">> \o p.value
      [] style = "no value" -> <<p.key>>
Render(w) ==
    FoldLeft(LAMBDA s, i : s \o (IF i = 1 THEN <<>> ELSE <<",">>) \o RenderPair(w.pairs[i], w.style),
             <<>>, [i \in 1..Len(w.pairs) |-> i])

\* AddMatch reaches MatchRule::parse with the text of a written rule.
StartParse(w) ==
    /\ pc = "idle" /\ Len(rules) < MaxRules
    /\ Len(w.pairs) + MapThenSumSet(LAMBDA h : Len(h.pairs), held) <= MaxPairs
    /\ written' = w /\ rest' = Trim(Render(w)) /\ rule' = Empty /\ pc' = "parse"
    /\ UNCHANGED <<rules, held>>

\* What AddMatch does with the outcome. An error is answered and nothing is kept.
Forget == written' = Nothing /\ rest' = <<>> /\ rule' = Empty /\ pc' = "idle"
Refused == pc = "error" /\ Forget /\ UNCHANGED <<rules, held>>

\* ClientMatchRules::add: a text that is there already is not stored again.
AddRule ==
    /\ pc = "ok" /\ Forget
    /\ rules' = IF \E i \in DOMAIN rules : rules[i].rule_string = Render(written)
                THEN rules ELSE Append(rules, [rule_string |-> Render(written), rule |-> rule])
    /\ held' = held \cup {written}

\* ClientMatchRules::remove, by the text; a text that is not there changes nothing.
RemoveRule(w) ==
    /\ pc = "idle"
    /\ rules' = SelectSeq(rules, LAMBDA r : r.rule_string # Render(w))
    /\ held' = {h \in held : Render(h) # Render(w)}
    /\ UNCHANGED <<written, rest, rule, pc>>

-----------------------------------------------------------------------------
(* Matching.                                                               *)

\* Slip: the namespace is compared without its separator.
InNamespaceLoose(s, ns, sep) == IsPrefix(ns, s)

\* s == ns, or s.starts_with(ns + sep).
InNamespace(s, ns, sep) == s = ns \/ IsPrefix(ns \o <<sep>>, s)

matches_path_filter(arg, filter) ==
    \/ arg = filter
    \/ EndsWith(filter, "/") /\ IsPrefix(filter, arg)
    \/ EndsWith(arg, "/") /\ IsPrefix(arg, filter)

\* extract_string_args: strings and object paths as they are, anything else as "",
\* up to the largest index a filter names.
extract_string_args(r, m) ==
    LET last == CHOOSE n \in DOMAIN r.args \cup DOMAIN r.arg_paths \cup {0} :
                    \A k \in DOMAIN r.args \cup DOMAIN r.arg_paths : k <= n
    IN [i \in 1..IF Len(m.args) <= last THEN Len(m.args) ELSE last + 1 |->
           IF m.args[i].kind \in {"string", "path"} THEN m.args[i].text ELSE <<>>]

\* Every filter but the destination's.
matches_ignoring_destination(r, m) ==
    LET args == extract_string_args(r, m)
        named == DOMAIN r.named
    IN /\ \A k \in Exact \cap named : m[k] = r.named[k]
       /\ "path_namespace" \in named =>
              m.path # None /\ InNamespace(m.path, r.named["path_namespace"], "/")
       /\ \A n \in DOMAIN r.args : n < Len(args) /\ args[n + 1] = r.args[n]
       /\ \A n \in DOMAIN r.arg_paths :
              n < Len(args) /\ matches_path_filter(args[n + 1], r.arg_paths[n])
       /\ "arg0namespace" \in named =>
              args # <<>> /\ InNamespace(args[1], r.named["arg0namespace"], ".")

\* An empty destination filter also accepts a message without a destination.
matches(r, m) ==
    /\ matches_ignoring_destination(r, m)
    /\ "destination" \in DOMAIN r.named =>
           \/ m.destination = r.named["destination"]
           \/ m.destination = None /\ r.named["destination"] = <<>>

\* The forwarding loop, for this client: a signal addressed to the multiplexer itself is
\* matched without its destination.
should_forward(m) ==
    \E i \in DOMAIN rules :
        IF m.destination = Mux THEN matches_ignoring_destination(rules[i].rule, m)
                               ELSE matches(rules[i].rule, m)

-----------------------------------------------------------------------------
Init ==
    /\ rules = <<>> /\ written = Nothing /\ held = {}
    /\ rest = <<>> /\ rule = Empty /\ pc = "idle"

Next ==
    \/ \E w \in Written : StartParse(w)
    \/ \E w \in held : RemoveRule(w)
    \/ Pair
    \/ Parsed
    \/ AddRule
    \/ Refused
Spec == Init /\ [][Next]_vars

-----------------------------------------------------------------------------
(* The reference: what the pairs of a written rule ask for.                *)

\* The elements of a path or of a bus name.
Elements(s, sep) ==
    SelectSeq(FoldLeft(LAMBDA e, t : IF t = sep THEN Append(e, <<>>)
                                     ELSE [e EXCEPT ![Len(e)] = Append(@, t)],
                       <<<<>>>>, s),
              LAMBDA e : e # <<>>)
Root == <<"/">>

\* The pairs that count: of those with one key, the last.
Counts(w) == {w.pairs[i] : i \in {i \in DOMAIN w.pairs :
                 \A j \in DOMAIN w.pairs : w.pairs[j].key = w.pairs[i].key => j <= i}}

WellFormed(w) ==
    w.pairs # <<>> => /\ w.style \in {"quoted", "bare", "spaced"}
                      /\ \A p \in Range(w.pairs) :
                            p.key \in DOMAIN (ArgKeys @@ ArgPathKeys) =>
                                (ArgKeys @@ ArgPathKeys)[p.key] \in 0..63

Strings(m, n) == {m.args[i].text : i \in {i \in {n + 1} \cap DOMAIN m.args :
                                             m.args[i].kind \in {"string", "path"}}}

\* One directory holds the other: its elements come first and it is written with a '/'.
Holds(dir, s) ==
    /\ EndsWith(dir, "/") /\ IsPrefix(Elements(dir, "/"), Elements(s, "/"))
    /\ Elements(dir, "/") # Elements(s, "/")

\* What a pair asks of a message. The code takes a root namespace for the root alone.
Asks(p, m) ==
    CASE p.key \in Exact -> m[p.key] = p.value
      [] p.key = "path_namespace" ->
             /\ m.path # None
             /\ IsPrefix(Elements(p.value, "/"), Elements(m.path, "/"))
             /\ p.value = Root => m.path = Root
      [] p.key = "destination" ->
             m.destination \in {p.value, Mux} \cup (IF p.value = <<>> THEN {None} ELSE {})
      [] p.key = "arg0namespace" ->
             \E s \in Strings(m, 0) : IsPrefix(Elements(p.value, "."), Elements(s, "."))
      [] p.key \in DOMAIN ArgKeys -> p.value \in Strings(m, ArgKeys[p.key])
      [] p.key \in DOMAIN ArgPathKeys ->
             \E s \in Strings(m, ArgPathKeys[p.key]) :
                 s = p.value \/ Holds(p.value, s) \/ Holds(s, p.value)
      [] OTHER -> TRUE
Accepts(w, m) == \A p \in Counts(w) : Asks(p, m)

-----------------------------------------------------------------------------
(* Properties.                                                             *)

\* Types and bounds: in particular no filter is kept for an argument beyond the
\* sixty-fourth, the last one parse allows (num > 63 is an error).
TypeOK ==
    /\ pc \in {"idle", "parse", "ok", "error"}
    /\ Len(rules) <= MaxRules /\ held \subseteq Written
    /\ DOMAIN rule.named \subseteq Named
    /\ DOMAIN rule.args \subseteq 0..63 /\ DOMAIN rule.arg_paths \subseteq 0..63

\* Whatever way a list of pairs is spelled (quoted or bare values, blanks, commas inside
\* quotes), MatchRule::parse accepts it exactly when every argument index in it is valid
\* and no quote or '=' is missing, and then keeps for every key it knows the value of its
\* last pair, and nothing else.
ParsedAsWritten ==
    /\ pc = "error" => ~ WellFormed(written)
    /\ pc = "ok" =>
         /\ WellFormed(written)
         /\ \A k \in Named :
               {p.value : p \in {p \in Counts(written) : p.key = k}}
                 = {rule.named[j] : j \in {k} \cap DOMAIN rule.named}
         /\ \A k \in DOMAIN ArgKeys :
               {p.value : p \in {p \in Counts(written) : p.key = k}}
                 = {rule.args[j] : j \in {ArgKeys[k]} \cap DOMAIN rule.args}
         /\ \A k \in DOMAIN ArgPathKeys :
               {p.value : p \in {p \in Counts(written) : p.key = k}}
                 = {rule.arg_paths[j] : j \in {ArgPathKeys[k]} \cap DOMAIN rule.arg_paths}

\* From the text of AddMatch to the forwarding loop: a signal is forwarded to a client
\* exactly when a rule the client holds accepts it, paths and bus names compared element
\* by element and a signal sent to the multiplexer itself whatever its destination.
ForwardsWhatWasAsked ==
    \A m \in Messages : should_forward(m) <=> \E w \in held : Accepts(w, m)

\* match_rules.rs, on path_namespace: "Object path namespace filter (matches path and all
\* children)".
NamespaceHoldsChildren ==
    \A w \in held, m \in Messages :
        (/\ Len(w.pairs) = 1 /\ w.pairs[1].key = "path_namespace" /\ m.path # None
         /\ IsPrefix(Elements(w.pairs[1].value, "/"), Elements(m.path, "/")))
        => should_forward(m)
============================================================================
