----------------------------- MODULE MCLibrary -----------------------------
(***************************************************************************)
(* Calls of the library.  A call on buffers is one step, modules are        *)
(* required in a state that lasts, and of a regular expression or a date    *)
(* one call is made, whose outcome its arguments determine.                 *)
(***************************************************************************)
EXTENDS Buffers, Modules

CONSTANTS
    MaxUnits,      \* length of the strings
    MaxEntries     \* entries in the caches at which nothing more is required

R == INSTANCE RegExps
D == INSTANCE Dates

VARIABLE
    call       \* nothing, or the call of a regular expression or a date that was made

---------------------------------------------------------------------------
(* Modules: a.js and b.js that may require each other, a directory c whose *)
(* package.json names a file that is not there but for its directory, d in *)
(* node_modules, e in a global folder, where there is another a.js, x.js   *)
(* that is short for x.js.js, and one that does not compile.               *)

Top == <<"r">>
Relative(name) == [path |-> TRUE, name |-> name, prefixed |-> FALSE]
Named(name, prefixed) == [path |-> FALSE, name |-> name, prefixed |-> prefixed]
FilesAtFirst ==
    {Path(Top, "a.js"), Path(Top, "b.json"), Path(Top, "x.js.js"), Path(Top, "bad.js"), Path(<<"r", "c", "lib">>, "index.js"),
     Path(<<"r", "node_modules">>, "d.js"), Path(<<"g">>, "e.js"), Path(<<"g">>, "a.js")}
BrokenFiles == {Path(Top, "bad.js")}
PackageMains == [dir \in {<<"r", "c">>} |-> Path(<<"r", "c">>, "lib")]
GlobalDirs == <<<<"g">>>>
Requested ==
    {Relative(name) : name \in {"a", "a.js", "b", "c", "x.js", "bad"}}
        \cup {Named("d", FALSE), Named("e", FALSE), Named("n", FALSE), Named("core", TRUE), Named("n", TRUE)}

LibraryInit == Init /\ call = <<>> /\ ModulesInit

\* Bytes in base 4, with elements that differ, the two zeros and the two NaNs of the floats
MCContents == {<<0, 1, 2, 3, 3, 1, 0, 2>>, <<3, 0, 0, 0, 0, 0, 0, 0>>, <<3, 0, 0, 0, 2, 0, 0, 0>>}
CallBuffers == call = <<>> /\ objs = <<>> /\ files = Files /\ Next /\ UNCHANGED <<call, moduleVars>>
NoBuffers == done = <<>> /\ ~mem[1].detached /\ mem[1].data[1] = 0 /\ UNCHANGED vars

Idle == call = <<>> /\ NoBuffers /\ UNCHANGED call
RequireModule == Idle /\ Cardinality(DOMAIN modules) + Cardinality(DOMAIN nodeModules) < MaxEntries /\ \E req \in Requests : Require(req)
FinishModule == Idle /\ Finish
ThrowModule == Idle /\ Throw
RemoveFile == Idle /\ stack = <<>> /\ files = Files /\ FileGoes /\ Path(Top, "a.js") \notin files'

Calling == call = <<>> /\ NoBuffers /\ objs = <<>> /\ files = Files /\ UNCHANGED moduleVars

---------------------------------------------------------------------------
(* Regular expressions.                                                    *)

Patterns == {"a", "a*", "(?<n>a)|b", "((a)|b)*", ".", "^", "", "L"}
Strings == UNION {[1..n -> {"a", "b", "H", "L"}] : n \in 0..MaxUnits}
Replacements == {<<"function">>, <<"&", "1", "before">>, <<"n", "after">>}
Methods ==
    {<<"exec">>, <<"match">>, <<"matchAll">>, <<"search">>} \cup {<<"split", limit>> : limit \in {-1, 0, 2}} \cup {<<"replace", by>> : by \in Replacements}

CallRegExp ==
    /\ Calling
    /\ \E pat \in Patterns, re2, g, y, u \in BOOLEAN, index \in 0..2, s \in Strings, m \in Methods :
         /\ re2 => pat # "L"
         /\ \E warm \in {<<>>} \cup (IF m = <<"exec">> /\ (g \/ y) THEN {<<s>>, <<s, <<>>>>, <<<<"b", "a">>>>} ELSE {}) :
              call' = [of |-> "regexp", rx |-> [pat |-> pat, re2 |-> re2, g |-> g, y |-> y, u |-> u, lastIndex |-> index, cache |-> R!NoCache],
                       s |-> s, method |-> m, warm |-> warm]

\* The object after an earlier call, that starts at 1, and after compile if there are two
Warm(c) ==
    LET used == R!execRegexp([c.rx EXCEPT !.lastIndex = 1], c.warm[1]).rx
    IN CASE c.warm = <<>> -> c.rx [] Len(c.warm) = 2 -> R!compile(used, c.rx.pat) [] OTHER -> [used EXCEPT !.lastIndex = c.rx.lastIndex]
AtStart(c) == IF Len(c.warm) = 2 THEN [c.rx EXCEPT !.lastIndex = 0] ELSE c.rx
Exec(rx, s) == LET e == R!execRegexp(rx, s) IN [v |-> R!Result(s, e.m, e.named), rx |-> e.rx]
Generic(c, rx) ==
    LET m == c.method IN
    CASE m[1] = "exec" -> Exec(rx, c.s)
      [] m[1] = "match" -> R!matcherGeneric(rx, c.s)
      [] m[1] = "matchAll" -> R!matchAll(rx, c.s)
      [] m[1] = "search" -> R!searchGeneric(rx, c.s)
      [] m[1] = "split" -> R!splitterGeneric(rx, c.s, m[2])
      [] m[1] = "replace" -> R!replacerGeneric(rx, c.s, m[2])
Fast(c, rx) ==
    LET m == c.method IN
    CASE m[1] = "match" -> R!matcher(rx, c.s)
      [] m[1] = "search" -> R!search(rx, c.s)
      [] m[1] = "split" -> R!splitter(rx, c.s, m[2])
      [] m[1] = "replace" -> R!replacer(rx, c.s, m[2])
      [] OTHER -> Generic(c, rx)
RegExpOutcome(r) == [v |-> r.v, lastIndex |-> r.rx.lastIndex]

\* What ECMAScript says a match is, in the units of the string
Char(s, i, u) == IF i >= Len(s) THEN "" ELSE IF u /\ i + 1 < Len(s) /\ s[i + 1] = "H" /\ s[i + 2] = "L" THEN "P" ELSE s[i + 1]
MatchAt(pat, s, i, u) ==
    LET c == Char(s, i, u)
        end == IF c = "P" THEN i + 2 ELSE i + 1
        Run(from, chars) ==
            CHOOSE to \in from..Len(s) : (\A k \in (from + 1)..to : s[k] \in chars) /\ (to < Len(s) => s[to + 1] \notin chars)
    IN CASE c # "" /\ pat \in {c, "."} -> <<<<i, end>>>>
         [] pat = "a*" -> <<<<i, Run(i, {"a"})>>>>
         [] pat = "((a)|b)*" ->
              LET to == Run(i, {"a", "b"})
              IN <<<<i, to>>, IF to = i THEN <<-1, 0>> ELSE <<to - 1, to>>, IF to > i /\ s[to] = "a" THEN <<to - 1, to>> ELSE <<-1, 0>>>>
         [] pat = "" \/ (pat = "^" /\ i = 0) -> <<<<i, i>>>>
         [] pat = "(?<n>a)|b" /\ c \in {"a", "b"} -> <<<<i, end>>, IF c = "a" THEN <<i, end>> ELSE <<-1, 0>>>>
         [] OTHER -> <<>>
Inside(s, i) == i \in 1..Len(s) /\ Char(s, i - 1, TRUE) = "P"
ExecResult(rx, s) ==
    LET from == IF rx.g \/ rx.y THEN rx.lastIndex ELSE 0
        starts == {i \in from..Len(s) : /\ i = from \/ (~rx.y /\ ~(rx.u /\ Inside(s, i)))
                                        /\ MatchAt(rx.pat, s, i, rx.u) # <<>>}
        m == MatchAt(rx.pat, s, CHOOSE i \in starts : \A j \in starts : i <= j, rx.u)
        moves == rx.g \/ rx.y
        found == starts # {}
    IN [v |-> IF found THEN R!Result(s, m, R!HasNames(rx.pat)) ELSE <<"null">>,
        lastIndex |-> IF ~moves THEN rx.lastIndex ELSE IF found THEN m[1][2] ELSE 0]

\* The names of the groups are lost in a string that is not ASCII, for a pattern that Go's engine runs on its characters.
NamesLost(c) == c.rx.re2 /\ c.rx.u /\ ~R!Ascii(c.s) /\ c.rx.pat = "(?<n>a)|b"

\* A run of a and b that ends in that text
Starred == "((a)|b)*"
EndsIn(s, text) == \E i, to \in DOMAIN s : i <= to /\ SubSeq(s, i, to) = text /\ (to < Len(s) => s[to + 1] \notin {"a", "b"})
\* What the inner group matched in the last iteration but one stays in the array, if the last one did not match it.
Stale(c) == c.rx.pat = Starred /\ EndsIn(c.s, <<"a", "b">>)

\* Unless lastIndex is in the middle of a pair, exec finds the first match at or behind lastIndex, whichever engine it uses and whatever it cached in an
\* earlier call, and leaves lastIndex behind the match or at 0
ExecFinds(c) ==
    c.method = <<"exec">> /\ ~NamesLost(c) /\ ~Stale(c) /\ ~(c.rx.u /\ Inside(c.s, c.rx.lastIndex)) =>
        RegExpOutcome(Fast(c, Warm(c))) = ExecResult(AtStart(c), c.s)

\* An empty match right behind another match
Abuts(c) == \E i \in DOMAIN c.s : (c.rx.pat = "a*" /\ c.s[i] = "a") \/ (c.rx.pat = Starred /\ c.s[i] \in {"a", "b"})
\* Where the paths differ: the names of groups; an empty match behind another, which Go's engine leaves out and exec finds; the empty matches of a
\* sticky object, which the fast path goes on from; in a string that is not ASCII the first match only, which the fast replace does not stop at or
\* does not test for where it begins; and the groups of earlier iterations, which the fast path keeps all and exec in part.
Differs(c) ==
    \/ NamesLost(c)
    \/ Abuts(c) /\ c.method[1] \in {"match", "replace"} /\ c.rx.re2 /\ c.rx.g
    \/ Abuts(c) /\ c.method[1] = "split" /\ (~c.rx.re2 \/ ~R!Ascii(c.s))
    \/ c.method[1] \in {"match", "replace"} /\ c.rx.g /\ c.rx.y /\ c.rx.pat \in {"", "^", "a*", Starred}
    \/ c.method[1] = "replace" /\ ~c.rx.g /\ ~R!Ascii(c.s) /\ (c.rx.u \/ c.rx.y)
    \/ c.rx.pat = Starred /\ EndsIn(c.s, <<"a", "b", "b">>) /\ (c.method[1] = "split" \/ c.method = <<"replace", <<"function">>>>)

\* match, search, split and replace return the same, and leave the same lastIndex, on the fast path as on the
\* one that calls exec for every match
PathsAgree(c) ==
    ~Differs(c) => RegExpOutcome(Fast(c, Warm(c))) = RegExpOutcome(Generic(c, Warm(c)))

---------------------------------------------------------------------------
(* Dates.                                                                  *)

\* 29 February 2000, that begins on day 11016, 1900 and the years 0, -1, 99, 12345 and -12345, and the limits
Times ==
    {<<0, 0>>, <<-1, 86399999>>, <<-1, 43200500>>, <<11016, 3599999>>, <<11015, 82800000>>, <<-25508, 1000>>, <<-719529, 60000>>, <<-683370, 0>>,
     <<3789391, 0>>, <<-5228446, 3723004>>,
     <<100000000, 0>>, <<-100000000, 0>>, <<99999999, 86399999>>}
Zones == {D!Utc, [before |-> 330, after |-> 330, at |-> <<0, 0>>],
          [before |-> 60, after |-> 120, at |-> <<11016, 3600000>>], [before |-> -240, after |-> -300, at |-> <<11016, 3600000>>]}
\* The time of a year this far off is 1970 again after 2^64 milliseconds.
Lapped == 584556019
Plain(v) == [v |-> v, sets |-> <<>>]
Given(n) == Plain(<<"int", n>>)
Arguments ==
    {<<Plain(v)>> : v \in {<<"nan">>, <<"inf">>}} \cup {<<Given(n)>> : n \in {-1001, -1, 0, 12, 31, 99, 2001, 86400}}
        \cup {<<Given(a), Given(b)>> : a \in {-1, 1}, b \in {-61, 0, 24, 29}} \cup {<<Given(a), b>> : a \in {5}, b \in {Plain(<<"nan">>), Given(-1)}}
        \cup {<<Given(2004), Given(1), Given(29)>>, <<Given(-4), Given(25), Given(-366), Given(3)>>} \cup {<<>>, <<Given(Lapped), Given(3)>>}
        \cup {<<[v |-> <<"int", 7>>, sets |-> t]>> : t \in {<<1, 1>>}} \cup {<<[v |-> <<"nan">>, sets |-> <<1, 1>>]>>}
Instants == {<<Plain(<<"time", t>>)>> : t \in {<<100000000, 1>>, <<-100000001, 86399999>>, <<99999999, 1>>}}
Setters == {"FullYear", "Month", "Date", "Hours", "Minutes", "Seconds"}
Texts == {"toString", "toUTCString", "toISOString", "toJSON", "toDateString", "toTimeString", "toLocaleString", "toLocaleDateString", "toLocaleTimeString"}
Getters == {"Time", "FullYear", "Month", "Hours", "Date", "Day", "Minutes", "Seconds", "Milliseconds", "TimezoneOffset"}
DateMethods ==
    {<<"set", name, args, utc>> : name \in Setters, args \in Arguments, utc \in BOOLEAN} \cup {<<"setMilliseconds", args>> : args \in Arguments}
        \cup {<<"setTime", args>> : args \in Arguments \cup Instants} \cup {<<"text", name>> : name \in Texts} \cup {<<"get">>}
        \cup {<<"new", args>> : args \in (Arguments \cup Instants) \ {<<>>}} \cup {<<"copy">>} \cup {<<"UTC", args>> : args \in Arguments}

\* The texts of the format of ECMAScript: the fields as far as they are given, and the zone
IsoDates == {<<2000>>, <<0, 12>>, <<2000, 2, 29>>, <<-1, 12, 31>>, <<12345, 1, 1>>}
IsoTimes == {<<>>, <<23, 59>>, <<0, 0, 1>>, <<24, 0, 0>>, <<1, 2, 3, <<5, 1>>>>, <<1, 2, 3, <<999999, 6>>>>}
IsoZones == {<<>>, <<0>>, <<330>>, <<-90>>}

CallDate ==
    /\ Calling
    /\ \E zone \in Zones :
         \/ \E d \in Times \cup {D!Unset}, m \in DateMethods : call' = [of |-> "date", d |-> d, zone |-> zone, method |-> m]
         \/ \E date \in IsoDates, time \in IsoTimes, z \in IsoZones :
              /\ time # <<>> => Len(date) # 2
              /\ time = <<>> => z = <<>>
              /\ call' = [of |-> "date", d |-> D!Unset, zone |-> zone, method |-> <<"parse", date, time, z>>]

IsoText(date, time, z) ==
    LET abs == IF date[1] < 0 THEN -date[1] ELSE date[1]
        zoned == IF z = <<>> THEN 0 ELSE IF z[1] < 0 THEN -z[1] ELSE z[1]
    IN (IF date[1] \in 0..9999 THEN <<<<"n", date[1], 4>>>> ELSE <<<<IF date[1] < 0 THEN "-" ELSE "+">>, <<"n", abs, 6>>>>)
        \o (IF Len(date) > 1 THEN D!Lexeme("-") \o D!Two(date[2]) ELSE <<>>) \o (IF Len(date) > 2 THEN D!Lexeme("-") \o D!Two(date[3]) ELSE <<>>)
        \o (IF time = <<>> THEN <<>> ELSE D!Lexeme("T") \o D!Two(time[1]) \o D!Lexeme(":") \o D!Two(time[2]))
        \o (IF Len(time) > 2 THEN D!Lexeme(":") \o D!Two(time[3]) ELSE <<>>)
        \o (IF Len(time) > 3 THEN D!Lexeme(".") \o <<<<"n", time[4][1], time[4][2]>>>> ELSE <<>>)
        \o (CASE z = <<>> -> <<>> [] z = <<0>> -> D!Lexeme("Z")
              [] OTHER -> D!Lexeme(IF z[1] < 0 THEN "-" ELSE "+") \o D!Two(zoned \div 60) \o D!Lexeme(":") \o D!Two(zoned % 60))

\* What a call returns, and the date afterwards
DateOutcome(c) ==
    LET m == c.method
        zone == c.zone
        d == c.d
        used == IF m[1] = "set" /\ m[4] THEN D!Utc ELSE zone
        made(t) == [v |-> t, d |-> d]
    IN CASE m[1] = "set" -> IF m[2] = "FullYear" THEN D!setFullYear(d, m[3], used) ELSE D!dateproto_set(d, m[2], m[3], used)
         [] m[1] = "setMilliseconds" -> D!setMilliseconds(d, m[2])
         [] m[1] = "setTime" -> D!setTime(m[2])
         [] m[1] = "new" -> made(D!makeDate(m[2], zone))
         [] m[1] = "copy" -> made(D!makeDate(<<Plain(<<"date", d>>)>>, zone))
         [] m[1] = "UTC" -> made(D!date_UTC(m[2]))
         [] m[1] = "get" -> made(IF d = D!Unset THEN D!Unset
                                      ELSE [n \in Getters |-> IF n \in {"Time", "FullYear", "Month", "Hours"} THEN D!DateGetter(d, n, zone) ELSE D!TimeGetter(d, n, zone)])
         [] m[1] = "text" -> made(D!makeDate(<<Plain(<<"string", D!Text(d, m[2], zone)>>)>>, zone))
         [] m[1] = "parse" -> made(D!makeDate(<<Plain(<<"string", IsoText(m[2], m[3], m[4])>>)>>, zone))

\* ECMAScript's MakeDay and MakeTime, and the times whose local time is a time
YearDay(y) == 365 * (y - 1970) + (y - 1969) \div 4 - (y - 1901) \div 100 + (y - 1601) \div 400
MonthDay(y, m) ==
    LET leap == (y % 4 = 0 /\ y % 100 # 0) \/ y % 400 = 0
    IN YearDay(y) + <<0, 31, 59, 90, 120, 151, 181, 212, 243, 273, 304, 334>>[m + 1] + (IF leap /\ m > 1 THEN 1 ELSE 0)
Made(f) ==
    D!Plus(<<MonthDay(f[1] + f[2] \div 12, f[2] % 12) + f[3] - 1 + f[4] \div 24 + f[5] \div 1440 + f[6] \div 86400, 0>>,
           (f[4] % 24) * 3600000 + (f[5] % 1440) * 60000 + (f[6] % 86400) * 1000 + f[7])
Local(t, zone) == D!Plus(t, D!Offset(zone, t) * 60000)
InUtc(local, zone) ==
    LET both == {D!Plus(local, -zone.before * 60000), D!Plus(local, -zone.after * 60000)}
        exact == {t \in both : Local(t, zone) = local}
    IN IF exact = {} THEN both ELSE exact
Clip(t) == IF t[1] \in -100000000..99999999 \/ t = <<100000000, 0>> THEN t ELSE D!Unset

\* The fields of a local time with those the arguments give
Replaced(old, args, first) ==
    LET from == IF args = <<>> THEN <<Plain(<<"nan">>)>> ELSE args
    IN [i \in 1..7 |-> IF i \in first..(first + Len(from) - 1) THEN from[i - first + 1].v ELSE <<"int", old[i]>>]
Whole(fields) == [i \in 1..7 |-> fields[i][2]]
Finite(fields) == \A i \in 1..7 : fields[i][1] = "int"
Epoch == <<1970, 0, 1, 0, 0, 0, 0>>

\* A year this far off has no time, whatever the other fields of the arguments above are.
Far(fields) == fields[1][2] + fields[2][2] \div 12 \notin -1000000..1000000
SetResults(d, fields, zone) == IF Finite(fields) /\ ~Far(fields) THEN {Clip(t) : t \in InUtc(Made(Whole(fields)), zone)} ELSE {D!Unset}
Argument(args) == IF args = <<>> THEN <<"nan">> ELSE args[1].v
Instant(v) == CASE v[1] = "int" -> D!Plus(<<0, 0>>, v[2]) [] v[1] = "time" -> Clip(v[2]) [] OTHER -> D!Unset
FirstYears(args) ==
    LET y == Argument(args)
    IN IF y[1] = "int" /\ y[2] \in 0..99 THEN <<[args[1] EXCEPT !.v = <<"int", 1900 + y[2]>>]>> \o Tail(args) ELSE args

\* The setters and the constructors give what MakeTime, MakeDay and TimeClip do with the fields of the date and the arguments, whatever the
\* conversion of the arguments does to the date; an unset date stays unset, but for setFullYear.  (setMilliseconds of a time before 1970 that is not
\* a whole second is one second late; the year Lapped is one of around 1970; a setter of an unset date whose argument is not a number takes back what the conversion set.)
DatesSet(c) ==
    LET result == DateOutcome(c)
        m == c.method
        d == c.d
        zone == IF m[1] = "set" /\ m[4] THEN D!Utc ELSE c.zone
        old == IF d = D!Unset THEN Epoch ELSE D!Fields(d, zone)
        late == d # D!Unset /\ D!Before(d, <<0, 0>>) /\ d[2] % 1000 # 0
        lost == d = D!Unset /\ \E i \in DOMAIN m[3] : m[3][i].v = <<"nan">> /\ m[3][i].sets # <<>>
        same == result.v = result.d
        Sets(fields, used) == (Finite(fields) /\ fields[1][2] = Lapped) \/ result.v \in SetResults(d, fields, used)
    IN CASE m[1] = "set" /\ (d # D!Unset \/ m[2] = "FullYear") ->
              same /\ Sets(Replaced(old, D!Taken(m[2], m[3]), D!First(m[2])), zone)
         [] m[1] = "set" -> result.v = D!Unset /\ (~lost => result.d = D!AfterArgs(d, m[3]))
         [] m[1] = "setMilliseconds" /\ d # D!Unset /\ ~late -> same /\ Sets(Replaced(D!Fields(d, D!Utc), <<Plain(Argument(m[2]))>>, 7), D!Utc)
         [] m[1] = "setTime" -> same /\ result.v = Instant(Argument(m[2]))
         [] m[1] = "new" /\ Len(m[2]) = 1 -> result.v = Instant(Argument(m[2]))
         [] m[1] = "new" -> Sets(Replaced(Epoch, FirstYears(m[2]), 1), zone)
         [] m[1] = "copy" -> result.v = d
         [] m[1] = "UTC" -> Sets(Replaced(Epoch, FirstYears(m[2]), 1), D!Utc)
         [] m[1] = "get" /\ d # D!Unset ->
              LET g == result.v
              IN /\ Made(<<g["FullYear"], g["Month"], g["Date"], g["Hours"], g["Minutes"], g["Seconds"], g["Milliseconds"]>>) = D!Plus(d, -g["TimezoneOffset"] * 60000)
                 /\ D!Plus(d, -g["TimezoneOffset"] * 60000) = Local(d, c.zone)
         [] OTHER -> TRUE

IsoTime(date, time, z, zone) ==
    LET part(s, i, default) == IF i <= Len(s) THEN s[i] ELSE default
        ms == IF Len(time) < 4 THEN 0 ELSE IF time[4][2] > 3 THEN time[4][1] \div 10^(time[4][2] - 3) ELSE time[4][1] * 10^(3 - time[4][2])
        local == Made(<<date[1], part(date, 2, 1) - 1, part(date, 3, 1), part(time, 1, 0), part(time, 2, 0), part(time, 3, 0), ms>>)
    IN CASE z # <<>> -> {D!Plus(local, -z[1] * 60000)} [] time = <<>> -> {local} [] OTHER -> InUtc(local, zone)

\* A date is read back from its texts as far as they tell it, in every zone, and the texts of the ISO format as ECMAScript says: a date alone in
\* UTC, a time without an offset in the local zone.  (The ISO text of a year from -9999 to -1 has four digits
\* and that of a year of five digits has five, and cannot be read.)
TextsRead(c) ==
    LET result == DateOutcome(c)
        m == c.method
        d == c.d
        second == D!Plus(d, -(d[2] % 1000))
        year(zone) == D!Fields(d, zone)[1]
    IN CASE m[1] = "parse" -> result.v \in IsoTime(m[2], m[3], m[4], c.zone)
         [] m[1] # "text" \/ d = D!Unset -> TRUE
         [] m[2] \in {"toISOString", "toJSON"} -> year(D!Utc) \notin -99999..-1 \cup 10000..99999 => result.v = d
         [] m[2] \in {"toString", "toUTCString"} -> result.v = second
         [] m[2] \in {"toTimeString", "toLocaleTimeString"} -> result.v = D!Unset
         [] m[2] = "toLocaleString" -> year(c.zone) >= 0 => result.v \in {Clip(t) : t \in InUtc(Local(second, c.zone), c.zone)}
         [] OTHER -> year(c.zone) >= 0 => result.v \in {Clip(t) : t \in InUtc(<<Local(d, c.zone)[1], 0>>, c.zone)}

---------------------------------------------------------------------------

\* The call of this step, if it is one
Called(of) == {c \in {call'} \ {<<>>} : c.of = of}

\* Dates agree with ECMAScript in every call: DatesSet and TextsRead.
DatesAgree == [][\A c \in Called("date") : DatesSet(c) /\ TextsRead(c)]_call
\* Regular expressions agree with ECMAScript in every call, and their fast paths with their generic ones: ExecFinds and PathsAgree.
RegExpsAgree == [][\A c \in Called("regexp") : ExecFinds(c) /\ PathsAgree(c)]_call

LibraryNext == CallBuffers \/ RequireModule \/ FinishModule \/ ThrowModule \/ RemoveFile \/ CallRegExp \/ CallDate
LibrarySpec == LibraryInit /\ [][LibraryNext]_<<vars, call, moduleVars>>

=============================================================================
