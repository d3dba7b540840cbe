------------------------------ MODULE MCKernel ------------------------------
(* Model-checking instance of Kernel: three terminals as in the source.   *)
EXTENDS Kernel

CONSTANTS Other   \* an executable that is not the shell

MCProgramsShell == {Shell}
MCPrograms      == {Shell, Other}
=============================================================================
