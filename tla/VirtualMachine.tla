---------------------------- MODULE VirtualMachine ----------------------------
(***************************************************************************)
(* VirtualMachine::Execute: a stack machine whose programs are arrays of   *)
(* words, opcodes obfuscated with an exclusive or, one program at a time   *)
(* under a mutex.  A machine is a record                                   *)
(*   ip        words read so far        sp, stack   the stack              *)
(*   registers                          flag        of the last VM_CMP     *)
(*   written   what VM_GET_TOP_STACK has last stored                       *)
(*   calls     the calls, [address, parameters]                            *)
(*   retVal    the word the last call left in RAX                          *)
(*   status    "run", "over", or how Execute ends otherwise: "false"       *)
(*             returned, "unknown" thrown, a "fault" of the processor, or  *)
(*             "wild" accesses outside the program or the stack            *)
(***************************************************************************)
EXTENDS Integers, Sequences, Bits

CONSTANTS
    XorKey,         \* XOR_KEY
    StackSize       \* of the machine of a program

ASSUME VirtualMachineAssumption == XorKey \in Word /\ StackSize \in Nat /\ StackSize >= 2

MAX_REGISTERS == 8

VM_Opcode ==
    <<"PUSH", "POP", "ADD", "SUB", "MUL", "DIV", "FL_ADD", "FL_SUB", "FL_MUL", "FL_DIV", "MOVE",
      "MOV_REGISTER_TO_REGISTER", "MOV_IMMEDIATE_TO_REGISTER", "GET_TOP_STACK", "CALL",
      "JL", "JLE", "JG", "JGE", "JE", "JNE", "JMP_OFFSET", "JMP_ABSOLUTE", "CMP",
      "STDOUT", "DBG_BREAK", "NOP", "END_FUNC">>

OBFUSCATE(w) == ExclusiveOr(w, XorKey)
Encoded(name) == OBFUSCATE((CHOOSE n \in DOMAIN VM_Opcode : VM_Opcode[n] = name) - 1)
Decoded(w) ==
    LET n == OBFUSCATE(w) + 1 IN IF n \in DOMAIN VM_Opcode THEN VM_Opcode[n] ELSE "unknown"

NoRegisters == [r \in 0..(MAX_REGISTERS - 1) |-> 0]
NewMachine ==
    [ip |-> 0, sp |-> 0, stack |-> [n \in 0..(StackSize - 1) |-> "anything"], registers |-> NoRegisters,
     flag |-> "equal", written |-> "nothing", calls |-> <<>>, retVal |-> 0, status |-> "run"]

Operands(name) ==
    CASE name \in {"PUSH", "GET_TOP_STACK", "JMP_OFFSET", "STDOUT"} -> 1
      [] name \in {"MOV_REGISTER_TO_REGISTER", "MOV_IMMEDIATE_TO_REGISTER", "CALL"} -> 2
      [] OTHER -> 0
Popped(name) ==
    CASE name \in {"ADD", "SUB", "MUL", "DIV", "FL_ADD", "FL_SUB", "FL_MUL", "FL_DIV", "CMP"} -> 2
      [] name = "POP" -> 1
      [] OTHER -> 0

\* Mutant: the operand on top is taken for the first.
ArithmeticSwapped(name, a, b) ==
    CASE name = "ADD" -> (a + b) % WordSize
      [] name = "SUB" -> (b - a) % WordSize
      [] name = "MUL" -> (a * b) % WordSize
      [] name = "DIV" -> a \div b
      [] name = "FL_ADD" -> a + b
      [] name = "FL_SUB" -> a - b
      [] name = "FL_MUL" -> a * b
      [] name = "FL_DIV" -> a \div b

\* A float is a whole number here, and so is its quotient.
Arithmetic(name, a, b) ==
    CASE name = "ADD" -> (a + b) % WordSize
      [] name = "SUB" -> (a - b) % WordSize
      [] name = "MUL" -> (a * b) % WordSize
      [] name = "DIV" -> a \div b
      [] name = "FL_ADD" -> a + b
      [] name = "FL_SUB" -> a - b
      [] name = "FL_MUL" -> a * b
      [] name = "FL_DIV" -> a \div b

\* The opcodes that Execute has no case for.
Unimplemented == {"MOVE", "JL", "JLE", "JG", "JGE", "JE", "JNE", "JMP_ABSOLUTE", "unknown"}

Compared(a, b) == CASE a = b -> "equal" [] a < b -> "less" [] OTHER -> "greater"

\* Two operands are popped, and the result is written where the stack pointer is then.
Calculate(vm, name) ==
    LET a == vm.stack[vm.sp - 2]
        b == vm.stack[vm.sp - 1]
    IN CASE name = "DIV" /\ b = 0 -> [vm EXCEPT !.status = "fault"]
         [] name = "FL_DIV" /\ b = 0 -> [vm EXCEPT !.sp = @ - 2, !.status = "false"]
         [] name = "CMP" -> [vm EXCEPT !.sp = @ - 2, !.flag = Compared(a, b)]
         [] OTHER -> [vm EXCEPT !.sp = @ - 2, !.stack[vm.sp - 2] = Arithmetic(name, a, b)]

\* The parameters stay on the stack, whose words are taken to be obfuscated.
Call(vm, number, address, rax) ==
    [vm EXCEPT
        !.calls = Append(@, [address |-> address,
                             parameters |-> [j \in 1..number |->
                                                OBFUSCATE(vm.stack[vm.sp - number + j - 1])]]),
        !.retVal = rax]

\* The words after the opcode, and what an opcode does with them.
Operand(vm, code, j) == code[vm.ip + 1 + j]

IsWild(vm, code, name) ==
    \/ vm.ip + 1 > Len(code)
    \/ vm.ip + 1 + Operands(name) > Len(code)
    \/ vm.sp < Popped(name)
    \/ name \in {"PUSH", "GET_TOP_STACK"} /\ vm.sp \notin DOMAIN vm.stack
    \/ name = "CALL" /\ vm.sp < OBFUSCATE(Operand(vm, code, 1))

Effect(vm, next, name, first, second, rax) ==
    CASE Popped(name) = 2 -> Calculate(next, name)
      [] name = "PUSH" -> [next EXCEPT !.stack[vm.sp] = first, !.sp = @ + 1]
      [] name = "POP" -> [next EXCEPT !.sp = @ - 1]
      [] name = "MOV_REGISTER_TO_REGISTER" ->
            IF first < MAX_REGISTERS /\ second < MAX_REGISTERS
            THEN [next EXCEPT !.registers[first] = vm.registers[second]]
            ELSE [next EXCEPT !.status = "false"]
      [] name = "MOV_IMMEDIATE_TO_REGISTER" ->
            IF first < MAX_REGISTERS THEN [next EXCEPT !.registers[first] = second]
            ELSE [next EXCEPT !.status = "false"]
      [] name = "GET_TOP_STACK" -> [next EXCEPT !.written = vm.stack[vm.sp]]
      [] name = "JMP_OFFSET" -> [next EXCEPT !.ip = @ + first]
      [] name = "CALL" -> Call(next, OBFUSCATE(first), OBFUSCATE(second), rax)
      [] name = "END_FUNC" -> [next EXCEPT !.status = "over"]
      [] name = "DBG_BREAK" -> [next EXCEPT !.status = "fault"]
      [] name \in {"STDOUT", "NOP"} -> next
      [] name \in Unimplemented -> [next EXCEPT !.status = "unknown"]

\* One turn of the loop.
Step(vm, code, rax) ==
    LET name == Decoded(code[vm.ip + 1])
        next == [vm EXCEPT !.ip = @ + 1 + Operands(name)]
    IN IF IsWild(vm, code, name) THEN [vm EXCEPT !.status = "wild"]
       ELSE Effect(vm, next, name, Operand(vm, code, 1), Operand(vm, code, 2), rax)

\* The machine after n turns: there are as many as the program has words.
Turns(vm, code, rax) ==
    LET after[n \in 0..Len(code)] ==
            IF n = 0 THEN vm
            ELSE LET m == after[n - 1] IN IF m.status = "run" THEN Step(m, code, rax) ELSE m
    IN after

\* The registers are reset when the loop ends by itself, the stack pointer never is.
Execute(vm, code, rax) ==
    LET start == [vm EXCEPT !.ip = 0, !.retVal = 0, !.status = "run"]
        end == Turns(start, code, rax)[Len(code)]
    IN IF end.status \in {"run", "over"}
       THEN [end EXCEPT !.registers = NoRegisters, !.status = "over"] ELSE end

\* What Execute<bool> returns, if it returns: a call's whole RAX made a bool.
Returned(vm) == vm.status = "over" /\ vm.retVal # 0

\* The constructor of AntiCheat calls a member function through the machine.
CallMember(this, address) ==
    <<Encoded("PUSH"), OBFUSCATE(this),
      Encoded("CALL"), OBFUSCATE(1), OBFUSCATE(address),
      Encoded("END_FUNC")>>

\* SetStackSize: what fits of the old stack is kept, the new part is whatever is there, the
\* stack pointer stays where it is.  Memory that cannot be had changes nothing.
SetStackSize(vm, size, available) ==
    IF size # 0 /\ ~available THEN vm
    ELSE [vm EXCEPT !.stack = [n \in 0..(size - 1) |->
                                  IF n \in DOMAIN vm.stack THEN vm.stack[n] ELSE "anything"]]

-----------------------------------------------------------------------------
(* What a program may rely on, for one sample *)

\* Two operands, an operation, and the store of what is on top then.
Computed(name, a, b) ==
    Execute(NewMachine,
            <<Encoded("PUSH"), a, Encoded("PUSH"), b, Encoded(name),
              Encoded("GET_TOP_STACK"), 0, Encoded("END_FUNC")>>, 0)

\* The same in two programs, with another size of the stack in between.
ComputedLater(name, a, b, size) ==
    LET pushed == Execute(NewMachine,
                          <<Encoded("PUSH"), a, Encoded("PUSH"), b, Encoded("END_FUNC")>>, 0)
    IN Execute(SetStackSize(pushed, size, TRUE),
               <<Encoded(name), Encoded("GET_TOP_STACK"), 0, Encoded("END_FUNC")>>, 0)

\* r is what the operation makes of a and b.
IsResult(name, a, b, r) ==
    CASE name = "ADD" -> (r - b) % WordSize = a
      [] name = "SUB" -> (r + b) % WordSize = a
      [] name = "MUL" -> \E n \in 0..a : a * b = n * WordSize + r
      [] name = "FL_ADD" -> r - b = a
      [] name = "FL_SUB" -> r + b = a
      [] name = "FL_MUL" -> (b # 0 => r % b = 0 /\ r \div b = a) /\ (b = 0 => r = 0)
      [] name \in {"DIV", "FL_DIV"} -> r * b <= a /\ a < (r + 1) * b

OperationIsRight(name, a, b) ==
    /\ b # 0 \/ name \notin {"DIV", "FL_DIV"}
          => \A vm \in {Computed(name, a, b), ComputedLater(name, a, b, StackSize + 1)} :
                vm.status = "over" /\ vm.sp = 0 /\ IsResult(name, a, b, vm.written)
    /\ b = 0 /\ name = "DIV" => Computed(name, a, b).status = "fault"
    /\ b = 0 /\ name = "FL_DIV" => Computed(name, a, b).status = "false"

\* A value goes through two registers, past a jump and a pop, and the comparison holds.
MovesAreRight(a, b) ==
    LET vm == Execute(NewMachine,
                      <<Encoded("MOV_IMMEDIATE_TO_REGISTER"), 0, a,
                        Encoded("MOV_REGISTER_TO_REGISTER"), 1, 0,
                        Encoded("JMP_OFFSET"), 2, Encoded("PUSH"), a,
                        Encoded("PUSH"), a, Encoded("PUSH"), b, Encoded("CMP"),
                        Encoded("NOP"), Encoded("END_FUNC")>>, 0)
    IN /\ vm.status = "over" /\ vm.sp = 0 /\ vm.registers = NoRegisters
       /\ (vm.flag = "less") = (a < b) /\ (vm.flag = "greater") = (b < a)

\* A member function is called once, at its address, with the object alone.
CallIsRight(this, address, rax) ==
    LET vm == Execute(NewMachine, CallMember(this, address), rax)
    IN /\ vm.calls = << [address |-> address, parameters |-> <<this>>] >>
       /\ Returned(vm) = (rax # 0)

=============================================================================
