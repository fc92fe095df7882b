------------------------------- MODULE Firmware -------------------------------
(***************************************************************************)
(* The contents of the monitor ROM (src/system/monitor_firmware.cpp): the  *)
(* machine code of each routine, byte for byte, and where install() loads  *)
(* it.  The code is data here; System runs it on Isa6502, and Monitor says *)
(* what it has to do.                                                      *)
(***************************************************************************)
EXTENDS Integers, Sequences

(* GETCHAR: wait for RXRDY, return DATA in A.                              *)
kGetCharHexFault_ErrorBit ==                              \* EveryLineAnswered
    <<\hAD, \h00, \h80, \h29, \h04, \hF0, \hF9, \hAD, \h01, \h80, \h60>>
kGetCharHex == <<\hAD, \h00, \h80, \h29, \h01, \hF0, \hF9, \hAD, \h01, \h80, \h60>>

(* PUTCHAR: A to DATA.                                                     *)
kPutCharHex == <<\h8D, \h01, \h80, \h60>>

(* PRINT_HEX_BYTE: A as two hex characters.                                *)
kPrintHexByteHex ==
    <<\h48, \h4A, \h4A, \h4A, \h4A, \h20, \h20, \hC2, \h68, \h29, \h0F,
      \h20, \h20, \hC2, \h60>>

(* PRINT_NIBBLE: A, below 16, as one hex character.                        *)
kPrintNibbleHex ==
    <<\hC9, \h0A, \h90, \h05, \h69, \h36, \h4C, \h00, \hC1, \h69, \h30,
      \h4C, \h00, \hC1>>

(* PRINT_STRING: the characters at STRPTR up to a zero.                    *)
kPrintStringHex ==
    <<\hA0, \h00, \hB1, \hFC, \hF0, \h07, \h20, \h00, \hC1, \hC8, \h4C,
      \h02, \hC3, \h60>>

(* The number of characters READ_LINE keeps.                                *)
LineLimitFault_PastBuffer == \h50      \* FirmwareKeepsToItself
LineLimit == \h40

(* READ_LINE: a line of typed characters, echoed and edited, into LINEBUF. *)
kReadLineHex ==
    <<\hA2, \h00, \h20, \h00, \hC0, \hC9, \h0D, \hF0, \h2C, \hC9, \h7F,
      \hF0, \h11, \hC9, \h08, \hF0, \h0D, \hE0, LineLimit, \hB0, \hED, \h95,
      \h00, \h20, \h00, \hC1, \hE8, \h4C, \h02, \hC4, \hE0, \h00, \hF0,
      \hE0, \hCA, \hA9, \h08, \h20, \h00, \hC1, \hA9, \h20, \h20, \h00,
      \hC1, \hA9, \h08, \h20, \h00, \hC1, \h4C, \h02, \hC4, \hA9, \h0D,
      \h20, \h00, \hC1, \hA9, \h0A, \h20, \h00, \hC1, \h86, \h40, \h60>>

(* PARSE_ADDR: the hex digits from LINEPOS on, into ADDR.                  *)
kParseAddrHex ==
    <<\hA9, \h00, \h85, \hF0, \h85, \hF1, \h85, \hF5, \hA6, \h41, \hE4,
      \h40, \hB0, \h24, \hB5, \h00, \h20, \h00, \hC7, \hB0, \h1D, \h48,
      \h06, \hF0, \h26, \hF1, \h06, \hF0, \h26, \hF1, \h06, \hF0, \h26,
      \hF1, \h06, \hF0, \h26, \hF1, \h68, \h05, \hF0, \h85, \hF0, \hE6,
      \h41, \hE6, \hF5, \h4C, \h08, \hC5, \hA5, \hF5, \hF0, \h02, \h18,
      \h60, \h38, \h60>>

(* PARSE_BYTE: at most two hex digits from LINEPOS on, into BYTEVAL.       *)
kParseByteHex ==
    <<\hA9, \h00, \h85, \hF4, \h85, \hF5, \hA5, \hF5, \hC9, \h02, \hB0,
      \h22, \hA6, \h41, \hE4, \h40, \hB0, \h1C, \hB5, \h00, \h20, \h00,
      \hC7, \hB0, \h15, \h48, \h06, \hF4, \h06, \hF4, \h06, \hF4, \h06,
      \hF4, \h68, \h05, \hF4, \h85, \hF4, \hE6, \h41, \hE6, \hF5, \h4C,
      \h06, \hC6, \hA5, \hF5, \hF0, \h02, \h18, \h60, \h38, \h60>>

(* HEXVAL: the value of the hex character in A; carry set if it is none.   *)
kHexValHexFault_AfterA ==                                 \* ImplementsMonitor
    <<\hC9, \h30, \h90, \h23, \hC9, \h3A, \hB0, \h05, \h38, \hE9, \h30,
      \h18, \h60, \hC9, \h41, \h90, \h16, \hC9, \h47, \hB0, \h05, \h38,
      \hE9, \h37, \h18, \h60, \hC9, \h62, \h90, \h09, \hC9, \h67, \hB0,
      \h05, \h38, \hE9, \h57, \h18, \h60, \h38, \h60>>
kHexValHex ==
    <<\hC9, \h30, \h90, \h23, \hC9, \h3A, \hB0, \h05, \h38, \hE9, \h30,
      \h18, \h60, \hC9, \h41, \h90, \h16, \hC9, \h47, \hB0, \h05, \h38,
      \hE9, \h37, \h18, \h60, \hC9, \h61, \h90, \h09, \hC9, \h67, \hB0,
      \h05, \h38, \hE9, \h57, \h18, \h60, \h38, \h60>>

(* DISPATCH: the command that the character after the address names.       *)
kDispatchHex ==
    <<\hA5, \h41, \hC5, \h40, \h90, \h03, \h4C, \h00, \hCA, \hA6, \h41,
      \hB5, \h00, \hC9, \h2E, \hF0, \h0B, \hC9, \h3A, \hF0, \h4D, \hC9,
      \h20, \hF0, \h4E, \h4C, \h88, \hC8, \hE6, \h41, \hA5, \hF0, \h85,
      \hF2, \hA5, \hF1, \h85, \hF3, \h20, \h00, \hC5, \hB0, \h5D, \hA5,
      \hF0, \h85, \hF5, \hA5, \hF1, \h85, \hF6, \hA5, \hF2, \h85, \hF0,
      \hA5, \hF3, \h85, \hF1, \hA5, \hF5, \h85, \hF2, \hA5, \hF6, \h85,
      \hF3, \hA5, \h41, \hC5, \h40, \h90, \h03, \h4C, \h00, \hCB, \hA6,
      \h41, \hB5, \h00, \hC9, \h20, \hD0, \h34, \hE8, \hE4, \h40, \hB0,
      \h2F, \hB5, \h00, \hC9, \h53, \hD0, \h29, \h4C, \h00, \hD0, \hE6,
      \h41, \h4C, \h00, \hCC, \hA6, \h41, \hE8, \hE4, \h40, \hB0, \h1A,
      \hB5, \h00, \hC9, \h52, \hF0, \h0B, \hC9, \h4C, \hF0, \h0A, \hC9,
      \h57, \hF0, \h09, \h4C, \h88, \hC8, \h4C, \h00, \hCD, \h4C, \h00,
      \hD1, \h4C, \h00, \hD2, \hA9, \h3F, \h20, \h00, \hC1, \hA9, \h0D,
      \h20, \h00, \hC1, \hA9, \h0A, \h20, \h00, \hC1, \h60>>

(* PEEK.                                                                   *)
kPeekHexFault_JumpsBack ==                                \* StackBalanced
    <<\hA5, \hF1, \h20, \h00, \hC2, \hA5, \hF0, \h20, \h00, \hC2, \hA9,
      \h3A, \h20, \h00, \hC1, \hA9, \h20, \h20, \h00, \hC1, \hA0, \h00,
      \hB1, \hF0, \h20, \h00, \hC2, \hA9, \h0D, \h20, \h00, \hC1, \hA9,
      \h0A, \h20, \h00, \hC1, \h4C, \h11, \hCF>>
kPeekHex ==
    <<\hA5, \hF1, \h20, \h00, \hC2, \hA5, \hF0, \h20, \h00, \hC2, \hA9,
      \h3A, \h20, \h00, \hC1, \hA9, \h20, \h20, \h00, \hC1, \hA0, \h00,
      \hB1, \hF0, \h20, \h00, \hC2, \hA9, \h0D, \h20, \h00, \hC1, \hA9,
      \h0A, \h20, \h00, \hC1, \h60>>

(* LIST: START to END, 16 bytes to a row.                                  *)
kListHex ==
    <<\hA9, \h00, \h85, \hF7, \hA5, \hF1, \hC5, \hF3, \h90, \h0A, \hD0,
      \h4B, \hA5, \hF0, \hC5, \hF2, \hF0, \h02, \hB0, \h43, \hA5, \hF7,
      \hD0, \h14, \hA5, \hF1, \h20, \h00, \hC2, \hA5, \hF0, \h20, \h00,
      \hC2, \hA9, \h3A, \h20, \h00, \hC1, \hA9, \h20, \h20, \h00, \hC1,
      \hA0, \h00, \hB1, \hF0, \h20, \h00, \hC2, \hA9, \h20, \h20, \h00,
      \hC1, \hE6, \hF0, \hD0, \h02, \hE6, \hF1, \hE6, \hF7, \hA5, \hF7,
      \hC9, \h10, \h90, \hBE, \hA9, \h0D, \h20, \h00, \hC1, \hA9, \h0A,
      \h20, \h00, \hC1, \hA9, \h00, \h85, \hF7, \h4C, \h04, \hCB, \hA5,
      \hF7, \hF0, \h0A, \hA9, \h0D, \h20, \h00, \hC1, \hA9, \h0A, \h20,
      \h00, \hC1, \h60>>

(* POKE: byte tokens to consecutive addresses.                             *)
kPokeHex ==
    <<\hA5, \h41, \hC5, \h40, \hB0, \h21, \hA6, \h41, \hB5, \h00, \hC9,
      \h20, \hD0, \h05, \hE6, \h41, \h4C, \h00, \hCC, \h20, \h00, \hC6,
      \hB0, \h0F, \hA0, \h00, \hA5, \hF4, \h91, \hF0, \hE6, \hF0, \hD0,
      \h02, \hE6, \hF1, \h4C, \h00, \hCC, \h60>>

(* RUN: JSR through a trampoline in RAM.                                   *)
kRunHexFault_Jumps ==                                     \* ProgramsComeBack
    <<\hA9, \h4C, \h85, \hF8, \hA5, \hF0, \h85, \hF9, \hA5, \hF1, \h85,
      \hFA, \hA9, \h60, \h85, \hFB, \h20, \hF8, \h00, \h60>>
kRunHex ==
    <<\hA9, \h20, \h85, \hF8, \hA5, \hF0, \h85, \hF9, \hA5, \hF1, \h85,
      \hFA, \hA9, \h60, \h85, \hFB, \h20, \hF8, \h00, \h60>>

(* BANNER and PROMPT.                                                      *)
kDataHex ==
    <<\h73, \h79, \h73, \h36, \h20, \h6D, \h6F, \h6E, \h69, \h74, \h6F,
      \h72, \h0D, \h0A, \h00, \h3E, \h20, \h00>>

(* COLD_START, WARM_START ($CF0E) and MAIN_LOOP ($CF11).                   *)
kMainHex ==
    <<\hA9, \h00, \h85, \hFC, \hA9, \hCE, \h85, \hFD, \h20, \h00, \hC3,
      \h4C, \h11, \hCF, \hA2, \hFF, \h9A, \hA9, \h0F, \h85, \hFC, \hA9,
      \hCE, \h85, \hFD, \h20, \h00, \hC3, \h20, \h00, \hC4, \hA9, \h00,
      \h85, \h41, \h20, \h00, \hC5, \hB0, \h06, \h20, \h00, \hC8, \h4C,
      \h11, \hCF, \hA9, \h3F, \h20, \h00, \hC1, \hA9, \h0D, \h20, \h00,
      \hC1, \hA9, \h0A, \h20, \h00, \hC1, \h4C, \h11, \hCF>>

(* SAVE: a block of length, data and checksum to the tape.                 *)
kSaveHex ==
    <<\hAD, \h02, \h80, \h29, \h01, \hD0, \h03, \h4C, \h70, \hD0, \hA5,
      \hF3, \hC5, \hF1, \h90, \h08, \hD0, \h09, \hA5, \hF2, \hC5, \hF0,
      \hB0, \h03, \h4C, \h70, \hD0, \hA9, \h01, \h8D, \h03, \h80, \h38,
      \hA5, \hF2, \hE5, \hF0, \h85, \h42, \hA5, \hF3, \hE5, \hF1, \h85,
      \h43, \hE6, \h42, \hD0, \h02, \hE6, \h43, \hA9, \h00, \h85, \h44,
      \hA5, \h42, \h8D, \h04, \h80, \hA5, \h43, \h8D, \h04, \h80, \hA5,
      \hF1, \hC5, \hF3, \h90, \h0A, \hD0, \h1C, \hA5, \hF0, \hC5, \hF2,
      \hF0, \h02, \hB0, \h14, \hA0, \h00, \hB1, \hF0, \h8D, \h04, \h80,
      \h45, \h44, \h85, \h44, \hE6, \hF0, \hD0, \h02, \hE6, \hF1, \h4C,
      \h41, \hD0, \hA5, \h44, \h8D, \h04, \h80, \hA9, \h00, \h8D, \h03,
      \h80, \h60, \hA9, \h3F, \h20, \h00, \hC1, \hA9, \h0D, \h20, \h00,
      \hC1, \hA9, \h0A, \h20, \h00, \hC1, \h60>>

(* LOAD: the block at the head; READ_TAPE_BYTE ($D16E).                    *)
kLoadHexFault_KeepsByte ==                                \* StackStands
    <<\hAD, \h02, \h80, \h29, \h01, \hD0, \h03, \h4C, \h5E, \hD1, \hA9,
      \h01, \h8D, \h03, \h80, \h20, \h6E, \hD1, \hB0, \h3C, \h85, \h42,
      \h20, \h6E, \hD1, \hB0, \h35, \h85, \h43, \hA9, \h00, \h85, \h44,
      \hA5, \h42, \h05, \h43, \hF0, \h20, \h20, \h6E, \hD1, \hB0, \h24,
      \h48, \h45, \h44, \h85, \h44, \h68, \hA0, \h00, \h91, \hF0, \hE6,
      \hF0, \hD0, \h02, \hE6, \hF1, \hA5, \h42, \hD0, \h02, \hC6, \h43,
      \hC6, \h42, \h4C, \h21, \hD1, \h20, \h6E, \hD1, \hB0, \h04, \hC5,
      \h44, \hF0, \h08, \hA9, \h00, \h8D, \h03, \h80, \h4C, \h5E, \hD1,
      \hA9, \h00, \h8D, \h03, \h80, \h60, \hA9, \h3F, \h20, \h00, \hC1,
      \hA9, \h0D, \h20, \h00, \hC1, \hA9, \h0A, \h20, \h00, \hC1, \h60,
      \hAD, \h04, \h80, \h48, \hAD, \h02, \h80, \h29, \h08, \hF0, \h03,
      \hEA, \h38, \h60, \h68, \h18, \h60>>
kLoadHex ==
    <<\hAD, \h02, \h80, \h29, \h01, \hD0, \h03, \h4C, \h5E, \hD1, \hA9,
      \h01, \h8D, \h03, \h80, \h20, \h6E, \hD1, \hB0, \h3C, \h85, \h42,
      \h20, \h6E, \hD1, \hB0, \h35, \h85, \h43, \hA9, \h00, \h85, \h44,
      \hA5, \h42, \h05, \h43, \hF0, \h20, \h20, \h6E, \hD1, \hB0, \h24,
      \h48, \h45, \h44, \h85, \h44, \h68, \hA0, \h00, \h91, \hF0, \hE6,
      \hF0, \hD0, \h02, \hE6, \hF1, \hA5, \h42, \hD0, \h02, \hC6, \h43,
      \hC6, \h42, \h4C, \h21, \hD1, \h20, \h6E, \hD1, \hB0, \h04, \hC5,
      \h44, \hF0, \h08, \hA9, \h00, \h8D, \h03, \h80, \h4C, \h5E, \hD1,
      \hA9, \h00, \h8D, \h03, \h80, \h60, \hA9, \h3F, \h20, \h00, \hC1,
      \hA9, \h0D, \h20, \h00, \hC1, \hA9, \h0A, \h20, \h00, \hC1, \h60,
      \hAD, \h04, \h80, \h48, \hAD, \h02, \h80, \h29, \h08, \hF0, \h03,
      \h68, \h38, \h60, \h68, \h18, \h60>>

(* REWIND.                                                                 *)
kRewindHexFault_Branch ==                                 \* ImplementsMonitor
    <<\hAD, \h02, \h80, \h29, \h01, \hF0, \h03, \h4C, \h10, \hD2, \hA9,
      \h02, \h8D, \h03, \h80, \h60, \hA9, \h3F, \h20, \h00, \hC1, \hA9,
      \h0D, \h20, \h00, \hC1, \hA9, \h0A, \h20, \h00, \hC1, \h60>>
kRewindHex ==
    <<\hAD, \h02, \h80, \h29, \h01, \hD0, \h03, \h4C, \h10, \hD2, \hA9,
      \h02, \h8D, \h03, \h80, \h60, \hA9, \h3F, \h20, \h00, \hC1, \hA9,
      \h0D, \h20, \h00, \hC1, \hA9, \h0A, \h20, \h00, \hC1, \h60>>

-----------------------------------------------------------------------------
(* install(): where loadRoutine puts each routine, and the three vectors.  *)

kMainLoopAddr == \hCF11
kListReadAddr == \hCB2E     \* LIST's LDA ($F0),Y

Installed ==
    {<<\hC000, kGetCharHex>>, <<\hC100, kPutCharHex>>, <<\hC200, kPrintHexByteHex>>,
     <<\hC220, kPrintNibbleHex>>, <<\hC300, kPrintStringHex>>, <<\hC400, kReadLineHex>>,
     <<\hC500, kParseAddrHex>>, <<\hC600, kParseByteHex>>, <<\hC700, kHexValHex>>,
     <<\hC800, kDispatchHex>>, <<\hCA00, kPeekHex>>, <<\hCB00, kListHex>>,
     <<\hCC00, kPokeHex>>, <<\hCD00, kRunHex>>, <<\hCE00, kDataHex>>, <<\hCF00, kMainHex>>,
     <<\hD000, kSaveHex>>, <<\hD100, kLoadHex>>, <<\hD200, kRewindHex>>,
     <<\hFFFA, <<\h0E, \hCF>> >>, <<\hFFFC, <<\h00, \hCF>> >>, <<\hFFFE, <<\h0E, \hCF>> >>}

(* The ROM's loaded addresses and their contents; the rest of it is unused. *)
Extent(r) == r[1] .. r[1] + Len(r[2]) - 1
LoadedAddr == UNION {Extent(r) : r \in Installed}
FirmwareRom ==
    [a \in LoadedAddr |-> LET r == CHOOSE s \in Installed : a \in Extent(s) IN r[2][a - r[1] + 1]]

(* The zero page: LINEBUF, LINELEN, LINEPOS and SAVE's variables, then the *)
(* parser's, LIST's, RUN's and PRINT_STRING's.                             *)
WorkArea == (\h00 .. \h44) \cup (\hF0 .. \hFD)
=============================================================================
