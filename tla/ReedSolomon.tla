---------------------------- MODULE ReedSolomon ----------------------------
(***************************************************************************)
(* The Reed-Solomon code (rs.c, berlekamp.c, ecc.c): NPAR parity bytes at  *)
(* the end of a packet, with which up to NPAR / 2 wrong bytes of it, parity *)
(* included, can be found and corrected.  Arrays count from 0; polynomials *)
(* have MAXDEG coefficients.  The part for erasures is never used.         *)
(***************************************************************************)
EXTENDS Ecc, Galois, Integers, FiniteSets

MAXDEG == 2 * NPAR

Degrees == 0 .. MAXDEG - 1

Poly == [Degrees -> Byte]

\* f[0] ^ ... ^ f[n - 1]
XorSum(f, n) ==
  LET sum[i \in 0 .. n] == IF i = 0 THEN 0 ELSE Xor[sum[i - 1]][f[i - 1]]
  IN  sum[n]

mul_z_poly(p) == [i \in Degrees |-> IF i = 0 THEN 0 ELSE p[i - 1]]

add_polys(p, q) == [i \in Degrees |-> Xor[p[i]][q[i]]]

scale_poly(k, p) == [i \in Degrees |-> gmult[k][p[i]]]

\* The polynomial 1, to which init_gamma comes without erasures.
One == [i \in Degrees |-> IF i = 0 THEN 1 ELSE 0]

-----------------------------------------------------------------------------
mult_polys(p1, p2) ==
  [k \in 0 .. 2 * MAXDEG - 1 |->
     XorSum([i \in Degrees |-> IF k - i \in Degrees THEN gmult[p2[k - i]][p1[i]] ELSE 0],
            MAXDEG)]

\* compute_genpoly: the product of x + a^i for i from 1 to NPAR.
genPoly ==
  LET root(i) == [k \in Degrees |-> IF k = 0 THEN gexp[i] ELSE One[k - 1]]
      product[i \in 0 .. NPAR] == IF i = 0 THEN One ELSE mult_polys(root(i), product[i - 1])
  IN  [k \in Degrees |-> product[NPAR][k]]

\* The message with the parity at its end, highest first.
build_codeword(msg, nbytes, pBytes) ==
  [i \in 0 .. nbytes + NPAR - 1 |->
     IF i < nbytes THEN msg[i] ELSE pBytes[NPAR - 1 - (i - nbytes)]]

\* The message is shifted through a register that divides it by genPoly; the
\* bytes left there are the parity.
encode_data(msg, nbytes) ==
  LET LFSR[i \in 0 .. nbytes] ==
        IF i = 0 THEN [j \in 0 .. NPAR - 1 |-> 0]
        ELSE LET last  == LFSR[i - 1]
                 dbyte == Xor[msg[i - 1]][last[NPAR - 1]]
             IN  [j \in 0 .. NPAR - 1 |->
                    Xor[IF j = 0 THEN 0 ELSE last[j - 1]][gmult[genPoly[j]][dbyte]]]
  IN  build_codeword(msg, nbytes, LFSR[nbytes])

-----------------------------------------------------------------------------
\* decode_data: the word evaluated at every root of genPoly.
synBytes(data, nbytes) ==
  [j \in Degrees |->
     IF j >= NPAR THEN 0
     ELSE LET sum[i \in 0 .. nbytes] ==
                IF i = 0 THEN 0 ELSE Xor[data[i - 1]][gmult[gexp[j + 1]][sum[i - 1]]]
          IN  sum[nbytes]]

check_syndrome(S) == \E j \in Degrees : S[j] # 0

compute_discrepancy(lambda, S, L, n) ==
  XorSum([i \in 0 .. L |-> gmult[lambda[i]][S[n - i]]], L + 1)

\* One turn of the loop of Modified_Berlekamp_Massey, whose discrepancy is d.
Adapt(s, n, d, psi2) ==
  IF d = 0 THEN [s EXCEPT !.D = mul_z_poly(s.D)]
  ELSE IF s.L < n - s.k
  THEN [psi |-> psi2, D |-> mul_z_poly(scale_poly(ginv[d], s.psi)),
        k |-> n - s.L, L |-> n - s.k]
  ELSE [s EXCEPT !.psi = psi2, !.D = mul_z_poly(s.D)]

BerlekampStep(s, S, n) ==
  LET d == compute_discrepancy(s.psi, S, s.L, n)
  IN  Adapt(s, n, d, add_polys(s.psi, scale_poly(d, s.D)))

\* The error locator, after all turns.
Lambda(S) ==
  LET turn == [n \in 0 .. NPAR - 1 |->
                 [s \in [psi : Poly, D : Poly, k : -1 .. NPAR, L : 0 .. NPAR + 1] |->
                    BerlekampStep(s, S, n)]]
      massey[n \in 0 .. NPAR] ==
        IF n = 0 THEN [psi |-> One, D |-> mul_z_poly(One), k |-> -1, L |-> 0]
        ELSE turn[n - 1][massey[n - 1]]
  IN  massey[NPAR].psi

\* compute_modified_omega: the error evaluator, lambda * S mod z^NPAR.
Omega(lambda, S) ==
  LET product == mult_polys(lambda, S)
  IN  [i \in Degrees |-> IF i < NPAR THEN product[i] ELSE 0]

\* Find_Roots: the places where lambda says there are errors.
ErrorLocs(lambda) ==
  LET value(r) == XorSum([k \in 0 .. NPAR |-> gmult[gexp[(k * r) % 255]][lambda[k]]], NPAR + 1)
  IN  {255 - r : r \in {x \in 1 .. 255 : value(x) = 0}}

\* Slip: the derivative is evaluated as if its powers had not dropped by one.
SlipDenominator(lambda, i) ==
  XorSum([j \in 0 .. NPAR - 1 |->
            gmult[lambda[2 * j + 1]][gexp[((255 - i) * (2 * j + 1)) % 255]]], NPAR)

\* The derivative of lambda at the place i; all odd powers disappear.
Denominator(lambda, i) ==
  XorSum([j \in 0 .. NPAR - 1 |->
            gmult[lambda[2 * j + 1]][gexp[((255 - i) * (2 * j)) % 255]]], NPAR)

\* omega at the place i.
Numerator(omega, i) ==
  XorSum([j \in Degrees |-> gmult[omega[j]][gexp[((255 - i) * j) % 255]]], MAXDEG)

\* With too many errors, or one outside the word, the word stays as it is.  With
\* more errors than the code is made for, a denominator can be 0, which has no
\* inverse: the code then works on memory that is not its own, and what it
\* writes is not defined.
correct_errors_erasures(data, csize, S) ==
  LET place(p) == csize - 1 - p
      err(lambda, omega, i) == gmult[Numerator(omega, i)][ginv[Denominator(lambda, i)]]
      correct ==
        [lambda \in Poly |-> [omega \in Poly |-> [locs \in SUBSET (0 .. 254) |->
           IF locs = {} \/ Cardinality(locs) > NPAR \/ \E i \in locs : i >= csize
           THEN [word |-> data, defined |-> TRUE]
           ELSE IF \E i \in locs : Denominator(lambda, i) = 0
           THEN [word |-> data, defined |-> FALSE]
           ELSE [word |-> [p \in DOMAIN data |->
                             IF place(p) \in locs
                             THEN Xor[data[p]][err(lambda, omega, place(p))] ELSE data[p]],
                 defined |-> TRUE]]]]
      locate == [lambda \in Poly |-> correct[lambda][Omega(lambda, S)][ErrorLocs(lambda)]]
  IN  locate[Lambda(S)]

rscode_decode(data, nbytes) ==
  LET decode[S \in Poly] ==
        IF check_syndrome(S) THEN correct_errors_erasures(data, nbytes, S)
        ELSE [word |-> data, defined |-> TRUE]
  IN  decode[synBytes(data, nbytes)]
=============================================================================
