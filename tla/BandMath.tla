------------------------------ MODULE BandMath ------------------------------
(***************************************************************************)
(* Band math and colour (expr.rs, style.rs, and the colour end of          *)
(* backend.rs): an expression over named bands is compiled to a postfix    *)
(* program and evaluated per pixel; stops of a ramp give a value its       *)
(* colour.  Numbers are fractions <<n, d>> with d > 0; a division by zero  *)
(* is the one value that is not finite.  sqrt is left out.                 *)
(***************************************************************************)
EXTENDS Integers, Sequences, FiniteSets, SequencesExt

NotFinite == <<0, 0>>
IsFinite(q) == q[2] # 0
Whole(n) == <<n, 1>>

Less(p, q) == p[1] * q[2] < q[1] * p[2]
Sum2(p, q) == <<p[1] * q[2] + q[1] * p[2], p[2] * q[2]>>
Negated(p) == <<-p[1], p[2]>>
Product2(p, q) == <<p[1] * q[1], p[2] * q[2]>>
Quotient2(p, q) ==
    CASE q[1] = 0 -> NotFinite
      [] q[1] > 0 -> <<p[1] * q[2], p[2] * q[1]>>
      [] q[1] < 0 -> <<-p[1] * q[2], p[2] * (-q[1])>>

\* One operator on finite arguments; f32 keeps a NaN out of min and max, and
\* any other operator passes it on.
Apply2(op, p, q) ==
    CASE op = "min" -> IF ~IsFinite(p) THEN q ELSE IF ~IsFinite(q) \/ Less(p, q) THEN p ELSE q
      [] op = "max" -> IF ~IsFinite(p) THEN q ELSE IF ~IsFinite(q) \/ Less(q, p) THEN p ELSE q
      [] op \notin {"min", "max"} /\ ~(IsFinite(p) /\ IsFinite(q)) -> NotFinite
      [] op = "+" -> Sum2(p, q)
      [] op = "-" -> Sum2(p, Negated(q))
      [] op = "*" -> Product2(p, q)
      [] OTHER -> Quotient2(p, q)

Apply1(op, p) ==
    IF ~IsFinite(p) THEN NotFinite
    ELSE IF op = "neg" \/ p[1] < 0 THEN Negated(p) ELSE p             \* neg, abs

---------------------------------------------------------------------------
\* Program::compile: recursive descent over the tokens, emitting operations as
\* it goes.  A token is <<"num", v>>, <<"ident", name>> or <<punctuation>>.
\* "pos" is the next token; "bands" the source bands seen, in first-seen order.

Refused(st) == [st EXCEPT !.ok = FALSE]
Peek(toks, st) == IF st.ok /\ st.pos <= Len(toks) THEN toks[st.pos] ELSE <<"end">>
bump(st) == [st EXCEPT !.pos = @ + 1]
Emit(st, op) == [st EXCEPT !.ops = Append(@, op)]
expect(toks, st, t) == IF Peek(toks, st) = <<t>> THEN bump(st) ELSE Refused(st)

emit_band(names, st, name) ==
    LET at   == {i \in DOMAIN names : names[i] = name}
        src  == CHOOSE i \in at : \A j \in at : i <= j
        seen == {k \in DOMAIN st.bands : st.bands[k] = src}
    IN  IF at = {} THEN Refused(st)
        ELSE IF seen # {} THEN Emit(st, <<"band", CHOOSE k \in seen : TRUE>>)
        ELSE Emit([st EXCEPT !.bands = Append(@, src)], <<"band", Len(st.bands) + 1>>)

Arity == [abs |-> 1, min |-> 2, max |-> 2, clamp |-> 3]

RECURSIVE parse_expr(_, _, _), parse_term(_, _, _), parse_factor(_, _, _), parse_primary(_, _, _)
RECURSIVE ExprRest(_, _, _), TermRest(_, _, _), Arguments(_, _, _, _)

ExprRest(toks, names, st) ==
    LET op   == Peek(toks, st)
        next == parse_term(toks, names, bump(st))
    IN  IF op \in {<<"+">>, <<"-">>} /\ st.ok
        THEN ExprRest(toks, names, IF next.ok THEN Emit(next, op) ELSE next)
        ELSE st
parse_expr(toks, names, st) == ExprRest(toks, names, parse_term(toks, names, st))

TermRest(toks, names, st) ==
    LET op   == Peek(toks, st)
        next == parse_factor(toks, names, bump(st))
    IN  IF op \in {<<"*">>, <<"/">>} /\ st.ok
        THEN TermRest(toks, names, IF next.ok THEN Emit(next, op) ELSE next)
        ELSE st
parse_term(toks, names, st) == TermRest(toks, names, parse_factor(toks, names, st))

parse_factor(toks, names, st) ==
    IF Peek(toks, st) = <<"-">>
    THEN LET next == parse_factor(toks, names, bump(st)) IN IF next.ok THEN Emit(next, <<"neg">>) ELSE next
    ELSE parse_primary(toks, names, st)

\* The arguments of a call, each an expression of its own; how many, and the
\* state after them.
Arguments(toks, names, st, n) ==
    LET next == parse_expr(toks, names, st)
    IN  IF Peek(toks, next) = <<",">> THEN Arguments(toks, names, bump(next), n + 1)
        ELSE <<n + 1, next>>

parse_call(toks, names, st, name) ==
    LET args == IF Peek(toks, st) = <<")">> THEN <<0, st>> ELSE Arguments(toks, names, st, 0)
        done == expect(toks, args[2], ")")
    IN  IF done.ok /\ name \in DOMAIN Arity
        THEN IF Arity[name] = args[1] THEN Emit(done, <<name>>) ELSE Refused(done)
        ELSE Refused(done)

parse_primary(toks, names, st) ==
    LET t == Peek(toks, st)
        next == bump(st)
    IN  CASE t[1] = "num" -> Emit(next, t)
          [] t[1] = "(" -> expect(toks, parse_expr(toks, names, next), ")")
          [] t[1] = "ident" ->
                IF Peek(toks, next) = <<"(">> THEN parse_call(toks, names, bump(next), t[2])
                ELSE emit_band(names, next, t[2])
          [] OTHER -> Refused(st)

\* <<program>>, or nothing when the expression is refused.
compile(toks, names) ==
    LET st == parse_expr(toks, names, [pos |-> 1, ops |-> <<>>, bands |-> <<>>, ok |-> TRUE])
    IN  IF st.ok /\ st.pos = Len(toks) + 1 THEN <<[ops |-> st.ops, bands_used |-> st.bands]>>
        ELSE <<>>

\* Program::eval at one pixel: planes[k] is the value of the k-th band used.
Step(stack, op, planes) ==
    LET n == Len(stack)
        below(k) == SubSeq(stack, 1, n - k)
    IN  CASE op[1] = "band" -> Append(stack, planes[op[2]])
          [] op[1] = "num" -> Append(stack, Whole(op[2]))
          [] op[1] \in {"neg", "abs"} -> Append(below(1), Apply1(op[1], stack[n]))
          [] op[1] = "clamp" ->
                Append(below(3), Apply2("min", Apply2("max", stack[n - 2], stack[n - 1]), stack[n]))
          [] OTHER -> Append(below(2), Apply2(op[1], stack[n - 1], stack[n]))

eval(program, planes) ==
    LET stack == FoldLeft(LAMBDA s, op : Step(s, op, planes), <<>>, program.ops)
    IN  IF stack = <<>> THEN Whole(0) ELSE stack[Len(stack)]

---------------------------------------------------------------------------
\* Styles.  A stop is <<value, <<r, g, b, a>>>>.

Transparent == <<0, 0, 0, 0>>

\* parse_stops: a list of four gets an opaque alpha, channels are clamped to
\* a byte, lists of other lengths are dropped, the stops are sorted.
clamp_u8(v) == IF v < 0 THEN 0 ELSE IF v > 255 THEN 255 ELSE v
parse_stops(lists) ==
    LET Stop(nums) == <<nums[1], [k \in 1 .. 4 |->
                           IF k = 4 /\ Len(nums) = 4 THEN 255 ELSE clamp_u8(nums[k + 1])]>>
        kept == SelectSeq(lists, LAMBDA nums : Len(nums) >= 4)
    IN  SortSeq([i \in DOMAIN kept |-> Stop(kept[i])], LAMBDA a, b : a[1] < b[1])

\* <<style>>, or nothing when the document is refused.
parse_style(doc) ==
    CASE doc.mode = "rgb" -> <<[mode |-> "rgb", bands |-> doc.bands]>>
      [] doc.mode = "pseudocolor" /\ parse_stops(doc.stops) # <<>> ->
            <<[mode |-> "pseudocolor", stops |-> parse_stops(doc.stops),
               nodata_transparent |-> doc.nodata_transparent]>>
      [] OTHER -> <<>>

\* To the nearest byte: both bounds are bytes, so the value is not negative.
Rounded(n, d) == (2 * n + d) \div (2 * d)

Between(a, b, q) ==
    LET span == (b[1] - a[1]) * q[2]
        part == q[1] - a[1] * q[2]
    IN  [k \in 1 .. 4 |-> IF span = 0 THEN a[2][k]
                          ELSE Rounded(a[2][k] * span + part * (b[2][k] - a[2][k]), span)]

interpolate(stops, q) ==
    LET last == Len(stops)
        i == CHOOSE j \in 1 .. last - 1 :
                /\ ~Less(q, Whole(stops[j][1])) /\ ~Less(Whole(stops[j + 1][1]), q)
                /\ \A k \in 1 .. j - 1 : Less(Whole(stops[k + 1][1]), q)
    IN  IF stops = <<>> THEN <<0, 0, 0, 255>>
        ELSE IF ~Less(Whole(stops[1][1]), q) THEN stops[1][2]
        ELSE IF ~Less(q, Whole(stops[last][1])) THEN stops[last][2]
        ELSE Between(stops[i], stops[i + 1], q)

\* colorize_values at one pixel: an invalid one is clear if the style says so.
colorize_values(style, q, valid) ==
    IF (style.nodata_transparent /\ ~valid) \/ ~IsFinite(q) THEN Transparent
    ELSE interpolate(style.stops, q)

\* The display path at one warped pixel: channels reordered or the first one
\* looked up, and the source mask as alpha.
apply_rgb(px, bands) ==
    [k \in 1 .. 4 |-> IF k = 4 THEN px[4] ELSE IF bands[k] \in 1 .. 4 THEN px[bands[k]] ELSE 0]

colorize(style, px) ==
    IF style.nodata_transparent /\ px[4] < 128 THEN Transparent
    ELSE interpolate(style.stops, Whole(px[1]))

Styled(style, px) ==
    IF style.mode = "rgb" THEN apply_rgb(px, style.bands) ELSE colorize(style, px)

---------------------------------------------------------------------------
\* What an expression means, from its tree rather than its tokens.
RECURSIVE Meaning(_, _)
Meaning(tree, env) ==
    CASE tree[1] = "num" -> Whole(tree[2])
      [] tree[1] = "ident" -> env[tree[2]]
      [] tree[1] \in {"neg", "abs"} -> Apply1(tree[1], Meaning(tree[2], env))
      [] tree[1] = "clamp" ->
            LET x == Meaning(tree[2], env)
                lo == Meaning(tree[3], env)
                hi == Meaning(tree[4], env)
            IN  IF Less(x, lo) THEN lo ELSE IF Less(hi, x) THEN hi ELSE x
      [] OTHER -> Apply2(tree[1], Meaning(tree[2], env), Meaning(tree[3], env))
=============================================================================
