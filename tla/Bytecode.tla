------------------------------ MODULE Bytecode ------------------------------
(***************************************************************************)
(* An instruction's eight bytes (bytecode.h, bytecode.cpp): the opcode and *)
(* one operand, or one of 24 bits and one of 32.  Operands are the 32-bit  *)
(* numbers the generator writes.  And the buffer instructions are appended *)
(* to (memory.h).                                                          *)
(***************************************************************************)
EXTENDS Integers

\* The bytes of an operand, the lowest first; a number of 32 bits fills the upper
\* ones with its sign when it becomes one of 64.
Byte0(value) == value % 256
Byte1(value) == (value \div 256) % 256
Byte2(value) == (value \div 65536) % 256
Byte3(value) == (value \div 16777216) % 256
SignByte(value) == IF value < 0 THEN 255 ELSE 0

Bytecode1(op, value) ==
  <<op, Byte0(value), Byte1(value), Byte2(value), Byte3(value),
    SignByte(value), SignByte(value), SignByte(value)>>

Bytecode2(op, value1, value2) ==
  <<op, Byte0(value1), Byte1(value1), Byte2(value1),
    Byte0(value2), Byte1(value2), Byte2(value2), Byte3(value2)>>

OpFrom(bytes) == bytes[1]

Number(b0, b1, b2, b3) ==
  b0 + 256 * b1 + 65536 * b2 + 16777216 * (IF b3 > 127 THEN b3 - 256 ELSE b3)

ValueUnsigned(bytes) == bytes[2] + 256 * bytes[3] + 65536 * bytes[4]      \* mutant

\* The shift keeps the sign, which the upper bytes only repeat.
ValueFrom(bytes) == Number(bytes[2], bytes[3], bytes[4], bytes[5])

\* The mask has cleared the sign before the shift.
Value1From(bytes) == Number(bytes[2], bytes[3], bytes[4], 0)

Value2From(bytes) == Number(bytes[5], bytes[6], bytes[7], bytes[8])

-----------------------------------------------------------------------------
\* MemoryBuffer, its bytes left out.
EmptyBuffer == [pos |-> 0, capacity |-> 1024]

BytecodeSize == 8

\* The capacity doubles once, however far the new position is.
TryResizeIfNeed(buffer, newPos) ==
  IF newPos > buffer.capacity THEN [buffer EXCEPT !.capacity = 2 * @] ELSE buffer

Written(buffer) ==
  [TryResizeIfNeed(buffer, buffer.pos + BytecodeSize) EXCEPT !.pos = @ + BytecodeSize]

\* BytecodeWriter::size, in values of eight bytes.
SizeOf(buffer) == buffer.pos \div BytecodeSize
=============================================================================
