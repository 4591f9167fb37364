----------------------------- MODULE MCToolchain ----------------------------
(***************************************************************************)
(* Small instances of Toolchain: the programs of a few families.          *)
(***************************************************************************)
EXTENDS Toolchain, Texts

\* A program where x is 3, f doubles a number and g counts a boolean.
InMain(ret, e) ==
  "fn f(a: Number) -> Number { return a * 2 } "
  \o "fn g(b: Bool) -> Number { if (b) { return 1 } return 0 } "
  \o "fn main() -> " \o ret \o " { let x = 3 return " \o e \o " }"

\* Three operands: every order of binding of two operators.
SomeOperators == {" + ", " - ", " * ", " == ", " && ", " | ", " << "}
Sums == {InMain("T", "x" \o a \o "2" \o b \o "f(x)") : a \in SomeOperators, b \in SomeOperators}
        \cup {InMain("T", "x" \o a \o "(2" \o b \o "f(x))") : a \in SomeOperators, b \in SomeOperators}

\* Operands of every kind, and operands of the core of the language.
Values1 == {"x", "true", "[x]", "Ok(x)", "{\"k\": x}", "fn(y) => x", "-x", "!x", "\"s\"", "f"}
Mixed == {InMain("T", l \o op \o r) : l \in Values1, r \in Values1, op \in {" + ", " == ", " < "}}
CoreValues == {"x", "true", "-x", "!x", "f(x)", "f(true)", "g(x < 2)", "g(1)", "f()", "-true"}
Core == {InMain(ret, l \o op \o r) : ret \in {"Number", "Bool"}, l \in CoreValues,
                                      r \in CoreValues, op \in {" + ", " < "}}

Statements == {
  "fn main() -> T { let s = 0 for (x in [1, 2, 3]) { s = s + x } return s }",
  "fn main() -> T { let s = 0 for (x in {\"a\": 1}) { s = s + 1 } return s }",
  "fn main() -> T { let i = 0 while (i < 3) { i = i + 1 if (i == 2) { return i } } return 9 }",
  "fn main() -> T { let m = {\"k\": 1} m.k = m.k + 5 m[\"j\"] = 2 return m }",
  "fn main() -> T { let l = [1, 2] l[1] = 7 return l.push(3) }",
  "fn main() -> T { let a = [1, 2, 3] return reduce(map(a, fn(x) => x * 2), fn(p, q) => p + q) }",
  "fn main() -> T { let k = 2 let g = fn(x) { if (x < k) { return 1 } return x } return g(1) + g(5) }",
  "fn main() -> T { let k = 2 let g = fn(x) => x + k k = 9 return g(1) }",
  "fn main() -> T { return filter([1, 2, 3], fn(x) => x > 1) }",
  "fn main() -> T { return any([1, 2], fn(x) => x > 1) && all([1, 2], fn(x) => x > 1) }",
  "fn main() -> T { return find([1, 2], fn(x) => x > 1) }",
  "fn main() -> T { return sortBy([3, 1, 2], fn(x) => -x) }",
  "struct P { a: Number, b: Number } fn P.sum(self: P) -> Number { return self.a + self.b } fn main() -> T { let p = P(4, 1) p.a = 6 return p.sum() }",
  "enum C { R, G } fn main() -> T { let c = C.G return match c { R => 1, G => 2 } }",
  "fn g(n: Number) -> Result<Number, String> { if (n < 1) { return Err(\"e\") } return Ok(n) } fn main() -> T { let a = g(1)? let b = g(0)? return a + b }",
  "fn main() -> T { let r = Ok(3) return match r { Ok(v) => v + 1, Err(e) => 0 } }",
  "fn main() -> T { return match 5 { 1 => 2, _ => 3 } }",
  "fn main() -> T { return match 5 { 1 => 2 } }",
  "fn f(n: Number) -> Number { if (n < 1) { return 0 } return n + f(n - 1) } fn main() -> T { return f(3) }",
  "fn main() -> T { return if (1 > 2) { 4 } else { 5 } }",
  "fn main() -> T { each([1], fn(x) { return x }) }",
  "fn main() -> T { return zz }",
  "fn main() -> T { y = 1 }", "fn f() -> Number { return true } fn main() -> Bool { return 1 }",
  "fn main() -> T { let x = 1 return x.len }",
  "fn f(a: Number) -> Number { return a } fn main() -> T { return f(true) }",
  "fn testA() { return 1 == 1 } fn testB() { return 3 } fn main() -> T { return 1 }",
  "fn testA() { q = 1 } fn main() -> T { return 1 }",
  "fn main() -> String { return \"a\\\"b\\\\ c\\n d\" }",
  "fn main( {", "fn main() -> T { return \"ab }" }

Commented == {
  "// top\nfn main() { // open\n let x = 1 // one\n // own\n return x\n // last\n} // end\n// after\n",
  "struct P { // p\n a: Number, // a\n b: Number\n}\nfn main() -> Number { return 1 } // m",
  "resilient fn main() -> Number deadline(5s) // d\n retries(2) { return 1 }",
  "enum C { R, // r\n G } // c" }

Generic == {
  "struct B<T> { v: T } fn a() -> Number { let b = B(1) return b.v } fn c() -> Number { let d = B(2) return d.v }",
  "struct B<T> { v: T } fn a() -> Number { let b = B(1) return b.v } fn c(b: B) -> String { return b.v }",
  "struct B<T> { v: T } fn a() -> Number { let b = B(1) return b.v } fn c() -> String { let b = B(\"s\") return b.v }",
  "struct B<T> { v: T } fn a() -> Number { let b = B(1) return b.v } fn c() -> Number { let b = B(\"s\") return b.v }",
  "struct B<T> { v: T } fn a() -> Number { let b = B(1) return b.w } fn c() -> Number { if (true) { let b = B(true) return b.v } let d = B(2) return d.v }",
  "struct B<T> { v: T } struct P<T, U> { v: T, w: U } fn a() -> Number { let b = P(1, \"s\") return b.v } fn c() -> String { let b = B(\"s\") return b.w }",
  "struct B<T> { v: T } fn a(b: B) -> String { return b.v } fn c() -> Number { let b = B(1) return b.v }",
  "struct B<T> { v: T } fn a(b: Number) -> Number { return b } fn c(d: B) -> String { return b.v }" }

\* What the printer must get right: comments in every place, parentheses, every form.
Printing == {
 "fn main() -> T { return match 1 { 1 => ({\"a\": 2}) } }",
 "fn main() -> T { return match 1 { 1 => ({\"a\": 2}).a + 1 } }",
 "fn main() -> T { let y = fn(x) => ({\"a\": 2}) ({\"a\": 1}).len() return match {\"a\": 1} { 1 => 2 } }",
 "fn main() -> T { if (match 1 { 1 => true }) { // z\n return 1 } }",
 "import \"a\\\"b\" fn f() { }",
 "fn main() -> T { let y = match 1 { 1 => 2, // two\n _ => 3 } // q\n return y }",
 "fn main() -> T { let y = match 1 { // c\n 1 => 2,\n _ => 3 }\n return y }",
 "fn main() -> T { let y = match 1 {\n // in\n 1 => 2, // two\n _ => 3 }\n return y }",
 "fn main() -> T { let y = f(1, // a\n 2)\n return y }",
 "fn main() -> T { let y = fn(x) { // l\n return x // r\n}\n return y }",
 "fn main() -> T { if (true) { return 1 } // e\n return 2 }",
 "fn main() -> T { if (true) { return 1 // a\n } else { // b\n return 2 // c\n } // d\n }",
 "fn main() -> T { while (x < 2) { x = 1 // a\n // b\n }\n // c\n return x }",
 "fn main() -> T { return 1 } // a\n// b\nfn g() { } // c\n",
 "// only\n",
 "fn main() -> T { return match 1 { 1 => {\"a\": 2} } }",
 "fn main() -> T { return match \"a\" { \"\\\"\" => 2 } }",
 "fn main() -> T { return -5 - -x - - 5 }",
 "fn main() -> T { return -(5) }",
 "fn main() -> T { return x-1 }",
 "fn main() -> T { return ((1 + 2) - (3 - 4)) * !(-x) }",
 "fn main() -> T { return (fn(x) => x)(1) }",
 "fn main() -> T { return a.b(1)[2].c?.d }",
 "fn main() -> T { return (a + b).c + (-a)? }",
 "fn main() -> T { return match 1 { 1 => match 2 { 2 => fn(x) => x }, _ => 4 } }",
 "fn main() -> T { return a >> b << c > d }",
 "fn main() -> T { return a > > b }",
 "fn g(f: Fn(Number, T) -> List<Map<String, T>>) -> Fn { return spawn g(f) }",
 "resilient fn r<A, B>(x: A) -> B deadline(5s) timeout(10ms) retries(3) retryBudget(2) fallback(f(x)) emergencyFallback(0) circuitBreaker(failThreshold: 3, cooldown: 1m) idempotent(key: x) cache(ttl: 2s) rateLimit(5, per: 1s) bulkhead(maxConcurrent: 2) hedging(after: 10ms) budget(tokens: 5, cost: 1) durable traced { return x }",
 "resilient fn r() deadline(1s) budget(cost: 1, tokens: 5, tokens: 6) { }",
 "private fn p() { } private struct S<T> { a: T } enum E { A, B }",
 "fn main() -> T { return if (a) { 1 } else { if (b) { 2 } } }",
 "fn main() -> T { let z = fn(x: Number, y) -> Number { let q = fn() => 1 return q() } return z }" }

\* A match after an operand that waits for it, and ? in a called function.
MatchPrograms == {
  "fn main() -> T { return 10 + match 2 { 1 => 5, 2 => 7 } }",
  "fn main() -> T { return [1, if (true) { 2 } else { 3 }] }",
  "fn main() -> T { let s = 0 for (x in [1, 2]) { s = s + match x { 1 => 5, _ => 6 } } return s }",
  "fn f(a: Number, b: Number) -> Number { return a - b } fn main() -> T { return f(1, match 2 { 2 => 7 }) }" }
Tries == {
  "fn fail() -> Result<Number, String> { return Err(\"e\") } fn safe() -> Result<Number, String> { let r = fail()? return r } fn main() -> T { let r = safe() return 1 }",
  "fn fail() -> Result<Number, String> { return Err(\"e\") } fn main() -> T { let g = fn(x) { return fail()? } let r = g(1) return 2 }",
  "fn fail() -> Result<Number, String> { return Err(\"e\") } fn main() -> T { let r = fail()? return r }" }
Rebound == {
  "fn main() -> T { let x = 1 if (false) { let x = 2 } return x }",
  "fn f(x: Number) -> T { for (x in [1]) { let y = x } return x } fn main() -> T { return f(5) }" }

AllSources == {Chars(s) : s \in Sums \cup Mixed \cup Core \cup Statements \cup Commented
                                \cup Generic \cup Printing \cup MatchPrograms \cup Tries \cup Rebound}
MatchSources == {Chars(s) : s \in MatchPrograms \cup Statements}
TrySources == {Chars(s) : s \in Tries \cup Statements}
============================================================================
