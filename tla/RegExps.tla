------------------------------ MODULE RegExps ------------------------------
(***************************************************************************)
(* Regular expression objects: lastIndex, the two engines behind a pattern *)
(* (Go's regexp for a search from the start, a backtracking one for        *)
(* everything else), the maps between their positions and those of the     *)
(* string, the cache, and the methods, each of which has a fast path for   *)
(* an unmodified object and a generic one that calls exec.                 *)
(*                                                                         *)
(* A string is a sequence of UTF-16 units: "a" and "b", "H" and "L" the    *)
(* halves of a pair; "P" is the pair read as one character.  Positions     *)
(* count from 0 as in the code.  A match is a sequence of <<from, to>>,    *)
(* the groups after the first <<-1, 0>> when unset.                        *)
(***************************************************************************)
EXTENDS Integers, SequencesExt

NoMatch == <<>>
Unset == <<-1, 0>>
Undefined == <<"undefined">>
Sub(s, i, j) == SubSeq(s, i + 1, j)
Ascii(s) == \A i \in DOMAIN s : s[i] \in {"a", "b"}

---------------------------------------------------------------------------
(* The engines.                                                            *)

\* The match of the pattern at place i of the characters.  A group keeps what it matched in an earlier iteration.
\* [external regular expression engines]
At(pat, runes, i) ==
    LET Is(c) == i < Len(runes) /\ runes[i + 1] = c
        Run(chars) == Max({j \in i..Len(runes) : \A k \in i..(j - 1) : runes[k + 1] \in chars})
        end == Run({"a", "b"})
        as == {k \in i..(end - 1) : runes[k + 1] = "a"}
    IN CASE pat \in {"a", "L"} -> IF Is(pat) THEN <<<<i, i + 1>>>> ELSE NoMatch
         [] pat = "a*" -> <<<<i, Run({"a"})>>>>
         [] pat = "(?<n>a)|b" -> IF Is("a") THEN <<<<i, i + 1>>, <<i, i + 1>>>> ELSE IF Is("b") THEN <<<<i, i + 1>>, Unset>> ELSE NoMatch
         [] pat = "((a)|b)*" -> <<<<i, end>>, IF end = i THEN Unset ELSE <<end - 1, end>>, IF as = {} THEN Unset ELSE <<Max(as), Max(as) + 1>>>>
         [] pat = "." -> IF i < Len(runes) THEN <<<<i, i + 1>>>> ELSE NoMatch
         [] pat = "^" -> IF i = 0 THEN <<<<0, 0>>>> ELSE NoMatch
         [] pat = "" -> <<<<i, i>>>>

\* [external FindRunesMatchStartingAt]
FindRunesMatchStartingAt(pat, runes, start) ==
    LET places == {i \in start..Len(runes) : At(pat, runes, i) # NoMatch}
    IN IF places = {} THEN NoMatch ELSE At(pat, runes, CHOOSE i \in places : \A j \in places : i <= j)
\* [external FindNextMatch] behind an empty match it goes one place on
FindNextMatch(pat, runes, m) == FindRunesMatchStartingAt(pat, runes, IF m[1][1] = m[1][2] THEN m[1][2] + 1 ELSE m[1][2])

\* [external FindAllStringSubmatchIndex] an empty match right behind another match is left out
RECURSIVE FindAll(_, _, _, _, _)
FindAll(pat, runes, pos, prev, limit) ==
    LET m == FindRunesMatchStartingAt(pat, runes, pos)
        empty == m[1][2] = pos
        rest(n) == FindAll(pat, runes, IF empty THEN pos + 1 ELSE m[1][2], m[1][2], n)
    IN IF limit = 0 \/ pos > Len(runes) \/ m = NoMatch THEN <<>>
       ELSE IF empty /\ m[1][1] = prev THEN rest(limit) ELSE <<m>> \o rest(limit - 1)

---------------------------------------------------------------------------
(* Characters and positions.                                               *)

\* The characters of the string from place i on, and the place of each and of the end
\* [regexp.go buildPosMap]
RECURSIVE buildPosMap(_, _)
buildPosMap(s, i) ==
    LET pair == i + 1 < Len(s) /\ s[i + 1] = "H" /\ s[i + 2] = "L"
        rest == buildPosMap(s, IF pair THEN i + 2 ELSE i + 1)
    IN IF i >= Len(s) THEN [runes |-> <<>>, pos |-> <<Len(s)>>]
       ELSE [runes |-> <<IF pair THEN "P" ELSE s[i + 1]>> \o rest.runes, pos |-> <<i>> \o rest.pos]

\* Where start is among the characters, and if it is in the middle of one
\* [regexp.go posMapReverseLookup]
posMapReverseLookup(pos, start) ==
    LET at == {i \in DOMAIN pos : pos[i] >= start}
        i == CHOOSE x \in at : \A y \in at : x <= y
    IN CASE at = {} -> [at |-> 0, split |-> FALSE]
         [] at # {} /\ pos[i] # start -> [at |-> i - 2, split |-> TRUE]
         [] OTHER -> [at |-> i - 1, split |-> FALSE]

\* [regexp.go buildUTF8PosMap] the positions of the string for those of the characters
Mapped(m, pos) == [g \in DOMAIN m |-> IF m[g] = Unset THEN Unset ELSE <<pos[m[g][1] + 1], pos[m[g][2] + 1]>>]
Valid(s) == \A i \in DOMAIN buildPosMap(s, 0).runes : buildPosMap(s, 0).runes[i] \in {"a", "b", "P"}

---------------------------------------------------------------------------
(* Patterns.  rx has the pattern, whether Go's engine can run it (re2),    *)
(* the flags g, y and u, lastIndex, and the cache of the backtracking      *)
(* engine.                                                                 *)

\* If a group of the pattern has a name: its first one
HasNames(pat) == pat = "(?<n>a)|b"

NoCache == [target |-> <<>>, runes |-> <<>>, pos |-> <<>>, on |-> FALSE]

\* [regexp.go findUTF16Cached..findSubmatchIndexUTF16]
findUTF16Cached(rx, s, start, doCache) ==
    LET hit == rx.cache.on /\ rx.cache.pos = <<>> /\ rx.cache.target = s
        runes == IF hit THEN rx.cache.runes ELSE s
        m == FindRunesMatchStartingAt(rx.pat, runes, start)
    IN [m |-> m, pos |-> [i \in 1..(Len(s) + 1) |-> i - 1], runes |-> runes,
        cache |-> IF doCache /\ m # NoMatch THEN [target |-> s, runes |-> runes, pos |-> <<>>, on |-> TRUE] ELSE NoCache]

\* Mutant: the second half is left in the cached characters
FindUnicodeSplit(rx, s, start, doCache) ==
    LET hit == rx.cache.on /\ rx.cache.pos # <<>> /\ rx.cache.target = s
        map == IF hit THEN [runes |-> rx.cache.runes, pos |-> rx.cache.pos] ELSE buildPosMap(s, 0)
        from == posMapReverseLookup(map.pos, start)
        runes == IF from.split THEN [map.runes EXCEPT ![from.at + 1] = "L"] ELSE map.runes
        m == FindRunesMatchStartingAt(rx.pat, runes, from.at)
    IN [m |-> m, pos |-> map.pos, runes |-> runes,
        cache |-> IF doCache /\ m # NoMatch THEN [target |-> s, runes |-> runes, pos |-> map.pos, on |-> TRUE] ELSE NoCache]

\* A search that starts inside a pair sees its second half.
\* [regexp.go findUnicodeCached..backtrackingWrapper.findSubmatchIndexUnicode]
findUnicodeCached(rx, s, start, doCache) ==
    LET hit == rx.cache.on /\ rx.cache.pos # <<>> /\ rx.cache.target = s
        map == IF hit THEN [runes |-> rx.cache.runes, pos |-> rx.cache.pos] ELSE buildPosMap(s, 0)
        from == posMapReverseLookup(map.pos, start)
        runes == IF from.split THEN [map.runes EXCEPT ![from.at + 1] = "L"] ELSE map.runes
        m == FindRunesMatchStartingAt(rx.pat, runes, from.at)
    IN [m |-> m, pos |-> map.pos, runes |-> runes,
        cache |-> IF doCache /\ m # NoMatch THEN [target |-> s, runes |-> map.runes, pos |-> map.pos, on |-> TRUE] ELSE NoCache]

Backtracking(rx, s, start, unicode, doCache) == IF unicode THEN findUnicodeCached(rx, s, start, doCache) ELSE findUTF16Cached(rx, s, start, doCache)

\* Go's engine from the start of the string.  For the characters of a string that is not ASCII the names of
\* the groups are not passed on.
\* [regexp.go regexpWrapper.findSubmatchIndex..regexpWrapper.clone]
findSubmatchIndexRE2(rx, s) ==
    LET map == buildPosMap(s, 0) IN
    IF rx.u /\ ~Ascii(s) THEN [m |-> Mapped(FindRunesMatchStartingAt(rx.pat, map.runes, 0), map.pos), named |-> FALSE]
    ELSE [m |-> FindRunesMatchStartingAt(rx.pat, s, 0), named |-> HasNames(rx.pat)]

\* The first match from start on, in positions of the string, whether its groups have their names, and the object
\* [regexp.go:131-144 findSubmatchIndex]
findSubmatchIndex(rx, s, start) ==
    LET b == Backtracking(rx, s, start, rx.u, rx.g \/ rx.y)
        r == findSubmatchIndexRE2(rx, s)
    IN IF ~rx.re2 \/ start # 0 THEN [m |-> Mapped(b.m, b.pos), named |-> HasNames(rx.pat), rx |-> [rx EXCEPT !.cache = b.cache]]
       ELSE [m |-> r.m, named |-> r.named, rx |-> rx]

\* Of the two only the first counts its results
RECURSIVE NextMatches(_, _, _, _, _, _)
NextMatches(rx, b, m, start, limit, sticky) ==
    LET r == Mapped(m, b.pos) IN
    IF m = NoMatch \/ limit = 0 \/ (sticky /\ r[1][1] # start) THEN <<>>
    ELSE <<r>> \o NextMatches(rx, b, FindNextMatch(rx.pat, b.runes, m), r[1][2], limit - 1, sticky)
\* [regexp.go findAllSubmatchIndexUTF16..findAllSubmatchIndexUnicode]
findAllBacktracking(rx, s, start, limit, sticky) ==
    LET unicode == rx.u /\ ~Ascii(s)
        b == Backtracking(rx, s, start, unicode, FALSE)
    IN [all |-> NextMatches(rx, b, b.m, start, IF limit < 0 \/ unicode THEN -1 ELSE limit, sticky), named |-> HasNames(rx.pat), rx |-> [rx EXCEPT !.cache = b.cache]]

\* As many of the matches as follow each other without a gap
RECURSIVE Gapless(_, _)
Gapless(all, pos) == IF all = <<>> \/ Head(all)[1][1] # pos THEN <<>> ELSE <<Head(all)>> \o Gapless(Tail(all), Head(all)[1][2])
\* [regexp.go regexpWrapper.findAllSubmatchIndex]
findAllRE2(pat, runes, limit, sticky) ==
    LET all == FindAll(pat, runes, 0, -1, limit) IN IF sticky THEN Gapless(all, 0) ELSE all

\* [regexp.go:146-180 findAllSubmatchIndex]
findAllSubmatchIndex(rx, s, start, limit, sticky) ==
    LET map == buildPosMap(s, 0)
        first == findSubmatchIndexRE2(rx, s)
        all == findAllRE2(rx.pat, map.runes, limit, sticky)
        Go(r) == [all |-> r, named |-> HasNames(rx.pat), rx |-> rx]
    IN CASE rx.re2 /\ start = 0 /\ Ascii(s) -> Go(findAllRE2(rx.pat, s, limit, sticky))
         [] rx.re2 /\ start = 0 /\ ~Ascii(s) /\ limit = 1 -> [Go(IF first.m = NoMatch THEN <<>> ELSE <<first.m>>) EXCEPT !.named = first.named]
         [] rx.re2 /\ start = 0 /\ ~Ascii(s) /\ limit # 1 /\ rx.u /\ Valid(s) -> Go([i \in DOMAIN all |-> Mapped(all[i], map.pos)])
         [] OTHER -> findAllBacktracking(rx, s, start, limit, sticky)

---------------------------------------------------------------------------
(* exec, and what a match is turned into.                                  *)

\* [regexp.go getLastIndex..test]
execRegexp(rx, s) ==
    LET index == IF rx.g \/ rx.y THEN rx.lastIndex ELSE 0
        f == IF index <= Len(s) THEN findSubmatchIndex(rx, s, index) ELSE [m |-> NoMatch, named |-> HasNames(rx.pat), rx |-> rx]
        match == f.m # NoMatch /\ (rx.y => f.m[1][1] = index)
    IN [m |-> IF match THEN f.m ELSE NoMatch, named |-> f.named,
        rx |-> IF rx.g \/ rx.y THEN [f.rx EXCEPT !.lastIndex = IF match THEN f.m[1][2] ELSE 0] ELSE f.rx]

\* The array of a match: what its groups matched; then its index, and the group with a name
Capture(s, g) == IF g = Unset THEN Undefined ELSE Sub(s, g[1], g[2])
Captures(s, m) == <<>> \o [g \in DOMAIN m |-> Capture(s, m[g])]
Groups(s, m, named) == IF named /\ Len(m) > 1 THEN <<Capture(s, m[2])>> ELSE Undefined
\* The groups of the array exec returns: not one that ends before the group kept last begins
\* [regexp.go:572-580 execResultToArray]
Kept(m) ==
    LET keep(r, g) ==
            IF g # Unset /\ g[2] >= r.lowerBound THEN [groups |-> Append(r.groups, g), lowerBound |-> g[1]] ELSE [r EXCEPT !.groups = Append(@, Unset)]
    IN FoldLeft(keep, [groups |-> <<Head(m)>>, lowerBound |-> 0], Tail(m)).groups
\* [regexp.go createRegexpGroupsObj..execResultToArray]
Result(s, m, named) == IF m = NoMatch THEN <<"null">> ELSE <<Captures(s, Kept(m)), m[1][1], Groups(s, Kept(m), named)>>

\* [builtin_regexp.go advanceStringIndex..advanceStringIndex64]
advanceStringIndex(s, pos, unicode) ==
    IF unicode /\ pos + 1 < Len(s) /\ s[pos + 1] = "H" /\ s[pos + 2] = "L" THEN pos + 2 ELSE pos + 1

---------------------------------------------------------------------------
(* The methods, on the generic path and on the fast one.  Each returns its *)
(* result and the object.                                                  *)

Returns(v, rx) == [v |-> v, rx |-> rx]

RECURSIVE GlobalMatches(_, _)
GlobalMatches(rx, s) ==
    LET e == execRegexp(rx, s)
        f == IF e.m[1][1] = e.m[1][2] THEN [e.rx EXCEPT !.lastIndex = advanceStringIndex(s, @, e.rx.u)] ELSE e.rx
        rest == GlobalMatches(f, s)
    IN IF e.m = NoMatch THEN Returns(<<>>, e.rx) ELSE Returns(<<[m |-> Kept(e.m), named |-> e.named]>> \o rest.v, rest.rx)
\* [builtin_regexp.go Runtime.regExpExec..getGlobalRegexpMatches]
getGlobalRegexpMatches(rx, s) == GlobalMatches([rx EXCEPT !.lastIndex = 0], s)

Texts(s, all) == IF all = <<>> THEN <<"null">> ELSE <<>> \o [i \in DOMAIN all |-> Capture(s, all[i][1])]
\* [builtin_regexp.go regexpproto_stdMatcherGeneric]
matcherGeneric(rx, s) ==
    LET a == getGlobalRegexpMatches(rx, s)
        e == execRegexp(rx, s)
    IN IF rx.g THEN Returns(Texts(s, [i \in DOMAIN a.v |-> a.v[i].m]), a.rx) ELSE Returns(Result(s, e.m, e.named), e.rx)
\* [builtin_regexp.go regexpproto_stdMatcher]
matcher(rx, s) ==
    LET a == findAllSubmatchIndex([rx EXCEPT !.lastIndex = 0], s, 0, -1, rx.y)
        e == execRegexp(rx, s)
    IN IF rx.g THEN Returns(Texts(s, a.all), a.rx) ELSE Returns(Result(s, e.m, e.named), e.rx)

\* The matches of a copy of the object, one for each call of the iterator
RECURSIVE Iterate(_, _)
Iterate(rx, s) ==
    LET e == execRegexp(rx, s)
        f == IF e.m[1][1] = e.m[1][2] THEN [e.rx EXCEPT !.lastIndex = advanceStringIndex(s, @, e.rx.u)] ELSE e.rx
        r == Result(s, e.m, e.named)
    IN CASE e.m = NoMatch -> <<>> [] e.m # NoMatch /\ ~rx.g -> <<r>> [] OTHER -> <<r>> \o Iterate(f, s)
\* [builtin_regexp.go regexpproto_stdMatcherAll..next]
matchAll(rx, s) == Returns(Iterate([rx EXCEPT !.cache = NoCache], s), rx)

\* [builtin_regexp.go regexpproto_stdSearchGeneric]
searchGeneric(rx, s) ==
    LET e == execRegexp([rx EXCEPT !.lastIndex = 0], s)
    IN Returns(IF e.m = NoMatch THEN -1 ELSE e.m[1][1], [e.rx EXCEPT !.lastIndex = rx.lastIndex])
\* [builtin_regexp.go regexpproto_stdSearch]
search(rx, s) ==
    LET e == execRegexp([rx EXCEPT !.lastIndex = 0], s)
    IN Returns(IF e.m = NoMatch THEN -1 ELSE e.m[1][1], [e.rx EXCEPT !.lastIndex = rx.lastIndex])

\* limit is -1 when it is undefined
Cut(list, limit) == IF limit >= 0 /\ Len(list) > limit THEN SubSeq(list, 1, limit) ELSE list
RECURSIVE SplitFrom(_, _, _, _)
SplitFrom(rx, s, p, q) ==
    LET e == execRegexp([rx EXCEPT !.lastIndex = q], s)
        end == e.m[1][2]
        step == SplitFrom(e.rx, s, p, advanceStringIndex(s, q, rx.u))
    IN CASE q >= Len(s) -> <<Sub(s, p, Len(s))>>
         [] q < Len(s) /\ (e.m = NoMatch \/ end = p) -> step
         [] OTHER -> <<Sub(s, p, q)>> \o Tail(Captures(s, Kept(e.m))) \o SplitFrom(e.rx, s, end, end)
\* [builtin_regexp.go regexpproto_stdSplitterGeneric]
splitterGeneric(rx, s, limit) ==
    LET sticky == [rx EXCEPT !.y = TRUE, !.lastIndex = 0, !.cache = NoCache] IN
    CASE limit = 0 -> Returns(<<>>, rx)
      [] limit # 0 /\ s = <<>> -> Returns(IF execRegexp(sticky, s).m = NoMatch THEN <<s>> ELSE <<>>, rx)
      [] OTHER -> Returns(Cut(SplitFrom(sticky, s, 0, 0), limit), rx)

RECURSIVE SplitAt(_, _, _)
SplitAt(s, all, last) ==
    LET m == Head(all)
        edge == m[1][1] = m[1][2] /\ m[1][1] \in {0, Len(s)}
    IN CASE all = <<>> -> <<Sub(s, last, Len(s))>>
         [] all # <<>> /\ edge -> SplitAt(s, Tail(all), last)
         [] OTHER -> <<Sub(s, last, m[1][1])>> \o Tail(Captures(s, m)) \o SplitAt(s, Tail(all), m[1][2])

\* [builtin_regexp.go regexpproto_stdSplitter]
splitter(rx, s, limit) ==
    LET f == findAllSubmatchIndex(rx, s, 0, -1, FALSE) IN
    CASE limit = 0 -> Returns(<<>>, rx)
      [] limit # 0 /\ s = <<>> -> Returns(IF f.all = <<>> THEN <<s>> ELSE <<>>, f.rx)
      [] OTHER -> Returns(Cut(SplitAt(s, f.all, 0), limit), f.rx)

\* A replacement is a function, which is shown its arguments, or a text of pieces: "&" for the match, "1" for
\* the first group, "n" for the group with a name, "before" and "after" for the rest of the string
Piece(piece, s, position, captures, groups) ==
    LET text(c) == IF c = Undefined THEN <<>> ELSE c IN
    CASE piece = "before" -> Sub(s, 0, position)
      [] piece = "after" -> Sub(s, position + Len(captures[1]), Len(s))
      [] piece = "&" -> captures[1]
      [] piece = "1" -> IF Len(captures) > 1 THEN text(captures[2]) ELSE <<"$1">>
      [] piece = "n" -> IF groups = Undefined THEN <<"$<n>">> ELSE text(groups[1])
      [] OTHER -> <<piece>>
\* [builtin_regexp.go writeSubstitution]
Replacement(by, s, position, captures, groups) ==
    IF by = <<"function">> THEN <<<<captures, position, s, groups>>>>
    ELSE FlattenSeq(<<>> \o [i \in DOMAIN by |-> Piece(by[i], s, position, captures, groups)])

\* [builtin_string.go stringReplace]
RECURSIVE stringReplace(_, _, _, _, _)
stringReplace(s, found, named, last, by) ==
    LET m == Head(found) IN
    IF found = <<>> THEN Sub(s, last, Len(s))
    ELSE Sub(s, last, m[1][1]) \o Replacement(by, s, m[1][1], Captures(s, m), Groups(s, m, named)) \o stringReplace(s, Tail(found), named, m[1][2], by)

RECURSIVE ReplaceResults(_, _, _, _)
ReplaceResults(s, results, last, by) ==
    LET r == Head(results)
        at == r.m[1][1]
    IN CASE results = <<>> -> Sub(s, last, Len(s))
         [] results # <<>> /\ at < last -> ReplaceResults(s, Tail(results), last, by)
         [] OTHER -> Sub(s, last, at) \o Replacement(by, s, at, Captures(s, r.m), Groups(s, r.m, r.named)) \o ReplaceResults(s, Tail(results), r.m[1][2], by)
\* [builtin_regexp.go regexpproto_stdReplacerGeneric]
replacerGeneric(rx, s, by) ==
    LET a == getGlobalRegexpMatches(rx, s)
        e == execRegexp(rx, s)
    IN IF rx.g THEN Returns(ReplaceResults(s, a.v, 0, by), a.rx)
       ELSE Returns(ReplaceResults(s, IF e.m = NoMatch THEN <<>> ELSE <<[m |-> Kept(e.m), named |-> e.named]>>, 0, by), e.rx)

\* [builtin_regexp.go regexpproto_stdReplacer]
replacer(rx, s, by) ==
    LET index == IF ~rx.g /\ rx.y THEN rx.lastIndex ELSE 0
        f == findAllSubmatchIndex(rx, s, index, IF rx.g THEN -1 ELSE 1, rx.y)
        new == IF ~rx.g /\ f.all # <<>> THEN Last(f.all)[1][2] ELSE 0
    IN Returns(stringReplace(s, f.all, f.named, 0, by), IF rx.g \/ rx.y THEN [f.rx EXCEPT !.lastIndex = new] ELSE f.rx)

\* With another pattern the object starts again, without a cache
\* [builtin_regexp.go regexpproto_compile]
compile(rx, pat) == [rx EXCEPT !.pat = pat, !.lastIndex = 0, !.cache = NoCache]

=============================================================================
