------------------------------- MODULE Decimal -------------------------------
(* The decimal adjustments (handlers/aaa.cpp, aas.cpp, aad.cpp, aam.cpp,   *)
(* daa.cpp, das.cpp). They are about digits of four bits, so AL and AH are *)
(* the two low bytes of AX at their real width of eight bits here, however *)
(* many bits the other handlers are checked with.                          *)
EXTENDS BitOps

ByteAl(s) == s.gpr["ax"] % 256
ByteAh(s) == (s.gpr["ax"] \div 256) % 256

(* AL and AH are written; ZF, SF and PF follow AL, OF stays as it was.     *)
WriteDigits(s, al, ah, carry, aux) ==
    [s EXCEPT !.gpr["ax"] = @ - (@ % 65536) + ah * 256 + al,
              !.flags = [@ EXCEPT !.cf = carry, !.af = aux, !.zf = al = 0, !.sf = al >= 128,
                    !.pf = Cardinality({k \in 0..7 : Bit(2 ^ k, al)}) % 2 = 0]]

DigitCarry(s) == s.flags.af \/ ByteAl(s) % 16 > 9

(* Unpacked digits: one digit in AL, the next one in AH.                   *)
AAA(s) == LET k == B(DigitCarry(s))
          IN WriteDigits(s, (ByteAl(s) + 6 * k) % 16, (ByteAh(s) + k) % 256, DigitCarry(s), DigitCarry(s))
AAS(s) == LET k == B(DigitCarry(s))
          IN WriteDigits(s, (ByteAl(s) - 6 * k) % 16, (ByteAh(s) - k) % 256, DigitCarry(s), DigitCarry(s))
AAM(s, i) ==
    IF i.imm = 0 THEN gp_fault(s, s.rip)
    ELSE WriteDigits(s, ByteAl(s) % i.imm, ByteAl(s) \div i.imm, FALSE, FALSE)
AAD(s, i) ==
    IF i.imm = 0 THEN gp_fault(s, s.rip)
    ELSE WriteDigits(s, (ByteAh(s) * i.imm + ByteAl(s)) % 256, 0, FALSE, FALSE)

(* Mutation: only the high digit is looked at.                             *)
HighDigitCarryDigit(s) == s.flags.cf \/ ByteAl(s) \div 16 > 9

(* Packed digits: AL is compared as a whole, before the low digit is       *)
(* adjusted, since the adjustment may carry into the high one.             *)
HighDigitCarry(s) == s.flags.cf \/ ByteAl(s) > 153

DAA(s) == WriteDigits(s, (ByteAl(s) + 6 * B(DigitCarry(s)) + 96 * B(HighDigitCarry(s))) % 256,
                      ByteAh(s), HighDigitCarry(s), DigitCarry(s))
DAS(s) == WriteDigits(s, (ByteAl(s) - 6 * B(DigitCarry(s)) - 96 * B(HighDigitCarry(s))) % 256,
                      ByteAh(s), HighDigitCarry(s), DigitCarry(s))
=============================================================================
