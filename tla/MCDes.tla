------------------------------- MODULE MCDes --------------------------------
(* Des with halves of two bits, two round keys and four rounds.  The round *)
(* function is no permutation, as that of DES is none.  And the known      *)
(* answers of test_des.c.                                                  *)
EXTENDS DesVectors
MCHalves == 0..3
MCBlocks == 0..15
MCXor == [p \in MCHalves \X MCHalves |->
            2 * (((p[1] \div 2) + (p[2] \div 2)) % 2) + ((p[1] + p[2]) % 2)]
MCF == [p \in MCHalves \X {1, 2} |-> (p[1] * p[1] + p[2]) % 4]
MCIP == [b \in MCBlocks |-> <<((5 * b + 3) % 16) \div 4, (5 * b + 3) % 4>>]
MCIP_inv == [p \in MCHalves \X MCHalves |-> CHOOSE b \in MCBlocks : MCIP[b] = p]
MCSchedules == {s \in [0..3 -> {1, 2}] : s[0] = 1 /\ s[3] = 2}

\* The four sets of test_des.c: a key, a block and its cipher, each as four numbers
\* of sixteen bits.
InitialPermutationTest ==
  {<<\h0101, \h0101, \h0101, \h0101, \h95F8, \hA5E5, \hDD31, \hD900, \h8000, \h0000, \h0000, \h0000>>,
   <<\h0101, \h0101, \h0101, \h0101, \hDD7F, \h121C, \hA501, \h5619, \h4000, \h0000, \h0000, \h0000>>,
   <<\h0101, \h0101, \h0101, \h0101, \h2E86, \h5310, \h4F38, \h34EA, \h2000, \h0000, \h0000, \h0000>>,
   <<\h0101, \h0101, \h0101, \h0101, \h4BD3, \h88FF, \h6CD8, \h1D4F, \h1000, \h0000, \h0000, \h0000>>,
   <<\h0101, \h0101, \h0101, \h0101, \h20B9, \hE767, \hB2FB, \h1456, \h0800, \h0000, \h0000, \h0000>>,
   <<\h0101, \h0101, \h0101, \h0101, \h5557, \h9380, \hD771, \h38EF, \h0400, \h0000, \h0000, \h0000>>,
   <<\h0101, \h0101, \h0101, \h0101, \h6CC5, \hDEFA, \hAF04, \h512F, \h0200, \h0000, \h0000, \h0000>>,
   <<\h0101, \h0101, \h0101, \h0101, \h0D9F, \h279B, \hA5D8, \h7260, \h0100, \h0000, \h0000, \h0000>>,
   <<\h0101, \h0101, \h0101, \h0101, \hD903, \h1B02, \h71BD, \h5A0A, \h0080, \h0000, \h0000, \h0000>>,
   <<\h0101, \h0101, \h0101, \h0101, \h4242, \h50B3, \h7C3D, \hD951, \h0040, \h0000, \h0000, \h0000>>,
   <<\h0101, \h0101, \h0101, \h0101, \hB806, \h1B7E, \hCD9A, \h21E5, \h0020, \h0000, \h0000, \h0000>>,
   <<\h0101, \h0101, \h0101, \h0101, \hF15D, \h0F28, \h6B65, \hBD28, \h0010, \h0000, \h0000, \h0000>>,
   <<\h0101, \h0101, \h0101, \h0101, \hADD0, \hCC8D, \h6E5D, \hEBA1, \h0008, \h0000, \h0000, \h0000>>,
   <<\h0101, \h0101, \h0101, \h0101, \hE6D5, \hF827, \h52AD, \h63D1, \h0004, \h0000, \h0000, \h0000>>,
   <<\h0101, \h0101, \h0101, \h0101, \hECBF, \hE3BD, \h3F59, \h1A5E, \h0002, \h0000, \h0000, \h0000>>,
   <<\h0101, \h0101, \h0101, \h0101, \hF356, \h8343, \h79D1, \h65CD, \h0001, \h0000, \h0000, \h0000>>,
   <<\h0101, \h0101, \h0101, \h0101, \h2B9F, \h982F, \h2003, \h7FA9, \h0000, \h8000, \h0000, \h0000>>,
   <<\h0101, \h0101, \h0101, \h0101, \h889D, \hE068, \hA16F, \h0BE6, \h0000, \h4000, \h0000, \h0000>>,
   <<\h0101, \h0101, \h0101, \h0101, \hE19E, \h275D, \h846A, \h1298, \h0000, \h2000, \h0000, \h0000>>,
   <<\h0101, \h0101, \h0101, \h0101, \h329A, \h8ED5, \h23D7, \h1AEC, \h0000, \h1000, \h0000, \h0000>>,
   <<\h0101, \h0101, \h0101, \h0101, \hE7FC, \hE225, \h57D2, \h3C97, \h0000, \h0800, \h0000, \h0000>>,
   <<\h0101, \h0101, \h0101, \h0101, \h12A9, \hF581, \h7FF2, \hD65D, \h0000, \h0400, \h0000, \h0000>>,
   <<\h0101, \h0101, \h0101, \h0101, \hA484, \hC3AD, \h38DC, \h9C19, \h0000, \h0200, \h0000, \h0000>>,
   <<\h0101, \h0101, \h0101, \h0101, \hFBE0, \h0A8A, \h1EF8, \hAD72, \h0000, \h0100, \h0000, \h0000>>,
   <<\h0101, \h0101, \h0101, \h0101, \h750D, \h0794, \h0752, \h1363, \h0000, \h0080, \h0000, \h0000>>,
   <<\h0101, \h0101, \h0101, \h0101, \h64FE, \hED9C, \h724C, \h2FAF, \h0000, \h0040, \h0000, \h0000>>,
   <<\h0101, \h0101, \h0101, \h0101, \hF02B, \h263B, \h328E, \h2B60, \h0000, \h0020, \h0000, \h0000>>,
   <<\h0101, \h0101, \h0101, \h0101, \h9D64, \h555A, \h9A10, \hB852, \h0000, \h0010, \h0000, \h0000>>,
   <<\h0101, \h0101, \h0101, \h0101, \hD106, \hFF0B, \hED52, \h55D7, \h0000, \h0008, \h0000, \h0000>>,
   <<\h0101, \h0101, \h0101, \h0101, \hE165, \h2C6B, \h138C, \h64A5, \h0000, \h0004, \h0000, \h0000>>,
   <<\h0101, \h0101, \h0101, \h0101, \hE428, \h5811, \h86EC, \h8F46, \h0000, \h0002, \h0000, \h0000>>,
   <<\h0101, \h0101, \h0101, \h0101, \hAEB5, \hF5ED, \hE22D, \h1A36, \h0000, \h0001, \h0000, \h0000>>,
   <<\h0101, \h0101, \h0101, \h0101, \hE943, \hD756, \h8AEC, \h0C5C, \h0000, \h0000, \h8000, \h0000>>,
   <<\h0101, \h0101, \h0101, \h0101, \hDF98, \hC827, \h6F54, \hB04B, \h0000, \h0000, \h4000, \h0000>>,
   <<\h0101, \h0101, \h0101, \h0101, \hB160, \hE468, \h0F6C, \h696F, \h0000, \h0000, \h2000, \h0000>>,
   <<\h0101, \h0101, \h0101, \h0101, \hFA07, \h52B0, \h7D9C, \h4AB8, \h0000, \h0000, \h1000, \h0000>>,
   <<\h0101, \h0101, \h0101, \h0101, \hCA3A, \h2B03, \h6DBC, \h8502, \h0000, \h0000, \h0800, \h0000>>,
   <<\h0101, \h0101, \h0101, \h0101, \h5E09, \h0551, \h7BB5, \h9BCF, \h0000, \h0000, \h0400, \h0000>>,
   <<\h0101, \h0101, \h0101, \h0101, \h814E, \hEB3B, \h91D9, \h0726, \h0000, \h0000, \h0200, \h0000>>,
   <<\h0101, \h0101, \h0101, \h0101, \h4D49, \hDB15, \h3291, \h9C9F, \h0000, \h0000, \h0100, \h0000>>,
   <<\h0101, \h0101, \h0101, \h0101, \h25EB, \h5FC3, \hF8CF, \h0621, \h0000, \h0000, \h0080, \h0000>>,
   <<\h0101, \h0101, \h0101, \h0101, \hAB6A, \h20C0, \h620D, \h1C6F, \h0000, \h0000, \h0040, \h0000>>,
   <<\h0101, \h0101, \h0101, \h0101, \h79E9, \h0DBC, \h98F9, \h2CCA, \h0000, \h0000, \h0020, \h0000>>,
   <<\h0101, \h0101, \h0101, \h0101, \h866E, \hCEDD, \h8072, \hBB0E, \h0000, \h0000, \h0010, \h0000>>,
   <<\h0101, \h0101, \h0101, \h0101, \h8B54, \h536F, \h2F3E, \h64A8, \h0000, \h0000, \h0008, \h0000>>,
   <<\h0101, \h0101, \h0101, \h0101, \hEA51, \hD397, \h5595, \hB86B, \h0000, \h0000, \h0004, \h0000>>,
   <<\h0101, \h0101, \h0101, \h0101, \hCAFF, \hC6AC, \h4542, \hDE31, \h0000, \h0000, \h0002, \h0000>>,
   <<\h0101, \h0101, \h0101, \h0101, \h8DD4, \h5A2D, \hDF90, \h796C, \h0000, \h0000, \h0001, \h0000>>,
   <<\h0101, \h0101, \h0101, \h0101, \h1029, \hD55E, \h880E, \hC2D0, \h0000, \h0000, \h0000, \h8000>>,
   <<\h0101, \h0101, \h0101, \h0101, \h5D86, \hCB23, \h639D, \hBEA9, \h0000, \h0000, \h0000, \h4000>>,
   <<\h0101, \h0101, \h0101, \h0101, \h1D1C, \hA853, \hAE7C, \h0C5F, \h0000, \h0000, \h0000, \h2000>>,
   <<\h0101, \h0101, \h0101, \h0101, \hCE33, \h2329, \h248F, \h3228, \h0000, \h0000, \h0000, \h1000>>,
   <<\h0101, \h0101, \h0101, \h0101, \h8405, \hD1AB, \hE24F, \hB942, \h0000, \h0000, \h0000, \h0800>>,
   <<\h0101, \h0101, \h0101, \h0101, \hE643, \hD780, \h90CA, \h4207, \h0000, \h0000, \h0000, \h0400>>,
   <<\h0101, \h0101, \h0101, \h0101, \h4822, \h1B99, \h3774, \h8A23, \h0000, \h0000, \h0000, \h0200>>,
   <<\h0101, \h0101, \h0101, \h0101, \hDD7C, \h0BBD, \h61FA, \hFD54, \h0000, \h0000, \h0000, \h0100>>,
   <<\h0101, \h0101, \h0101, \h0101, \h2FBC, \h291A, \h570D, \hB5C4, \h0000, \h0000, \h0000, \h0080>>,
   <<\h0101, \h0101, \h0101, \h0101, \hE07C, \h30D7, \hE4E2, \h6E12, \h0000, \h0000, \h0000, \h0040>>,
   <<\h0101, \h0101, \h0101, \h0101, \h0953, \hE225, \h8E8E, \h90A1, \h0000, \h0000, \h0000, \h0020>>,
   <<\h0101, \h0101, \h0101, \h0101, \h5B71, \h1BC4, \hCEEB, \hF2EE, \h0000, \h0000, \h0000, \h0010>>,
   <<\h0101, \h0101, \h0101, \h0101, \hCC08, \h3F1E, \h6D9E, \h85F6, \h0000, \h0000, \h0000, \h0008>>,
   <<\h0101, \h0101, \h0101, \h0101, \hD2FD, \h8867, \hD50D, \h2DFE, \h0000, \h0000, \h0000, \h0004>>,
   <<\h0101, \h0101, \h0101, \h0101, \h06E7, \hEA22, \hCE92, \h708F, \h0000, \h0000, \h0000, \h0002>>,
   <<\h0101, \h0101, \h0101, \h0101, \h166B, \h40B4, \h4ABA, \h4BD6, \h0000, \h0000, \h0000, \h0001>>}

KeyTest ==
  {<<\h8001, \h0101, \h0101, \h0101, \h0000, \h0000, \h0000, \h0000, \h95A8, \hD728, \h13DA, \hA94D>>,
   <<\h4001, \h0101, \h0101, \h0101, \h0000, \h0000, \h0000, \h0000, \h0EEC, \h1487, \hDD8C, \h26D5>>,
   <<\h2001, \h0101, \h0101, \h0101, \h0000, \h0000, \h0000, \h0000, \h7AD1, \h6FFB, \h79C4, \h5926>>,
   <<\h1001, \h0101, \h0101, \h0101, \h0000, \h0000, \h0000, \h0000, \hD374, \h6294, \hCA6A, \h6CF3>>,
   <<\h0801, \h0101, \h0101, \h0101, \h0000, \h0000, \h0000, \h0000, \h809F, \h5F87, \h3C1F, \hD761>>,
   <<\h0401, \h0101, \h0101, \h0101, \h0000, \h0000, \h0000, \h0000, \hC02F, \hAFFE, \hC989, \hD1FC>>,
   <<\h0201, \h0101, \h0101, \h0101, \h0000, \h0000, \h0000, \h0000, \h4615, \hAA1D, \h33E7, \h2F10>>,
   <<\h0180, \h0101, \h0101, \h0101, \h0000, \h0000, \h0000, \h0000, \h2055, \h1233, \h50C0, \h0858>>,
   <<\h0140, \h0101, \h0101, \h0101, \h0000, \h0000, \h0000, \h0000, \hDF3B, \h99D6, \h5773, \h97C8>>,
   <<\h0120, \h0101, \h0101, \h0101, \h0000, \h0000, \h0000, \h0000, \h31FE, \h1736, \h9B52, \h88C9>>,
   <<\h0110, \h0101, \h0101, \h0101, \h0000, \h0000, \h0000, \h0000, \hDFDD, \h3CC6, \h4DAE, \h1642>>,
   <<\h0108, \h0101, \h0101, \h0101, \h0000, \h0000, \h0000, \h0000, \h178C, \h83CE, \h2B39, \h9D94>>,
   <<\h0104, \h0101, \h0101, \h0101, \h0000, \h0000, \h0000, \h0000, \h50F6, \h3632, \h4A9B, \h7F80>>,
   <<\h0102, \h0101, \h0101, \h0101, \h0000, \h0000, \h0000, \h0000, \hA846, \h8EE3, \hBC18, \hF06D>>,
   <<\h0101, \h8001, \h0101, \h0101, \h0000, \h0000, \h0000, \h0000, \hA2DC, \h9E92, \hFD3C, \hDE92>>,
   <<\h0101, \h4001, \h0101, \h0101, \h0000, \h0000, \h0000, \h0000, \hCAC0, \h9F79, \h7D03, \h1287>>,
   <<\h0101, \h2001, \h0101, \h0101, \h0000, \h0000, \h0000, \h0000, \h90BA, \h680B, \h22AE, \hB525>>,
   <<\h0101, \h1001, \h0101, \h0101, \h0000, \h0000, \h0000, \h0000, \hCE7A, \h24F3, \h50E2, \h80B6>>,
   <<\h0101, \h0801, \h0101, \h0101, \h0000, \h0000, \h0000, \h0000, \h882B, \hFF0A, \hA01A, \h0B87>>,
   <<\h0101, \h0401, \h0101, \h0101, \h0000, \h0000, \h0000, \h0000, \h2561, \h0288, \h9245, \h11C2>>,
   <<\h0101, \h0201, \h0101, \h0101, \h0000, \h0000, \h0000, \h0000, \hC715, \h16C2, \h9C75, \hD170>>,
   <<\h0101, \h0180, \h0101, \h0101, \h0000, \h0000, \h0000, \h0000, \h5199, \hC29A, \h52C9, \hF059>>,
   <<\h0101, \h0140, \h0101, \h0101, \h0000, \h0000, \h0000, \h0000, \hC22F, \h0A29, \h4A71, \hF29F>>,
   <<\h0101, \h0120, \h0101, \h0101, \h0000, \h0000, \h0000, \h0000, \hEE37, \h1483, \h714C, \h02EA>>,
   <<\h0101, \h0110, \h0101, \h0101, \h0000, \h0000, \h0000, \h0000, \hA81F, \hBD44, \h8F9E, \h522F>>,
   <<\h0101, \h0108, \h0101, \h0101, \h0000, \h0000, \h0000, \h0000, \h4F64, \h4C92, \hE192, \hDFED>>,
   <<\h0101, \h0104, \h0101, \h0101, \h0000, \h0000, \h0000, \h0000, \h1AFA, \h9A66, \hA6DF, \h92AE>>,
   <<\h0101, \h0102, \h0101, \h0101, \h0000, \h0000, \h0000, \h0000, \hB3C1, \hCC71, \h5CB8, \h79D8>>,
   <<\h0101, \h0101, \h8001, \h0101, \h0000, \h0000, \h0000, \h0000, \h19D0, \h32E6, \h4AB0, \hBD8B>>,
   <<\h0101, \h0101, \h4001, \h0101, \h0000, \h0000, \h0000, \h0000, \h3CFA, \hA7A7, \hDC87, \h20DC>>,
   <<\h0101, \h0101, \h2001, \h0101, \h0000, \h0000, \h0000, \h0000, \hB726, \h5F7F, \h447A, \hC6F3>>,
   <<\h0101, \h0101, \h1001, \h0101, \h0000, \h0000, \h0000, \h0000, \h9DB7, \h3B3C, \h0D16, \h3F54>>,
   <<\h0101, \h0101, \h0801, \h0101, \h0000, \h0000, \h0000, \h0000, \h8181, \hB65B, \hABF4, \hA975>>,
   <<\h0101, \h0101, \h0401, \h0101, \h0000, \h0000, \h0000, \h0000, \h93C9, \hB640, \h42EA, \hA240>>,
   <<\h0101, \h0101, \h0201, \h0101, \h0000, \h0000, \h0000, \h0000, \h5570, \h5308, \h2970, \h5592>>,
   <<\h0101, \h0101, \h0180, \h0101, \h0000, \h0000, \h0000, \h0000, \h8638, \h809E, \h8787, \h87A0>>,
   <<\h0101, \h0101, \h0140, \h0101, \h0000, \h0000, \h0000, \h0000, \h41B9, \hA79A, \hF79A, \hC208>>,
   <<\h0101, \h0101, \h0120, \h0101, \h0000, \h0000, \h0000, \h0000, \h7A9B, \hE42F, \h2009, \hA892>>,
   <<\h0101, \h0101, \h0110, \h0101, \h0000, \h0000, \h0000, \h0000, \h2903, \h8D56, \hBA6D, \h2745>>,
   <<\h0101, \h0101, \h0108, \h0101, \h0000, \h0000, \h0000, \h0000, \h5495, \hC6AB, \hF1E5, \hDF51>>,
   <<\h0101, \h0101, \h0104, \h0101, \h0000, \h0000, \h0000, \h0000, \hAE13, \hDBD5, \h6148, \h8933>>,
   <<\h0101, \h0101, \h0102, \h0101, \h0000, \h0000, \h0000, \h0000, \h024D, \h1FFA, \h8904, \hE389>>,
   <<\h0101, \h0101, \h0101, \h8001, \h0000, \h0000, \h0000, \h0000, \hD139, \h9712, \hF99B, \hF02E>>,
   <<\h0101, \h0101, \h0101, \h4001, \h0000, \h0000, \h0000, \h0000, \h14C1, \hD7C1, \hCFFE, \hC79E>>,
   <<\h0101, \h0101, \h0101, \h2001, \h0000, \h0000, \h0000, \h0000, \h1DE5, \h279D, \hAE3B, \hED6F>>,
   <<\h0101, \h0101, \h0101, \h1001, \h0000, \h0000, \h0000, \h0000, \hE941, \hA33F, \h8550, \h1303>>,
   <<\h0101, \h0101, \h0101, \h0801, \h0000, \h0000, \h0000, \h0000, \hDA99, \hDBBC, \h9A03, \hF379>>,
   <<\h0101, \h0101, \h0101, \h0401, \h0000, \h0000, \h0000, \h0000, \hB7FC, \h92F9, \h1D8E, \h92E9>>,
   <<\h0101, \h0101, \h0101, \h0201, \h0000, \h0000, \h0000, \h0000, \hAE8E, \h5CAA, \h3CA0, \h4E85>>,
   <<\h0101, \h0101, \h0101, \h0180, \h0000, \h0000, \h0000, \h0000, \h9CC6, \h2DF4, \h3B6E, \hED74>>,
   <<\h0101, \h0101, \h0101, \h0140, \h0000, \h0000, \h0000, \h0000, \hD863, \hDBB5, \hC59A, \h91A0>>,
   <<\h0101, \h0101, \h0101, \h0120, \h0000, \h0000, \h0000, \h0000, \hA1AB, \h2190, \h545B, \h91D7>>,
   <<\h0101, \h0101, \h0101, \h0110, \h0000, \h0000, \h0000, \h0000, \h0875, \h041E, \h64C5, \h70F7>>,
   <<\h0101, \h0101, \h0101, \h0108, \h0000, \h0000, \h0000, \h0000, \h5A59, \h4528, \hBEBE, \hF1CC>>,
   <<\h0101, \h0101, \h0101, \h0104, \h0000, \h0000, \h0000, \h0000, \hFCDB, \h3291, \hDE21, \hF0C0>>,
   <<\h0101, \h0101, \h0101, \h0102, \h0000, \h0000, \h0000, \h0000, \h869E, \hFD7F, \h9F26, \h5A09>>}

PTest ==
  {<<\h1046, \h9134, \h8998, \h0131, \h0000, \h0000, \h0000, \h0000, \h88D5, \h5E54, \hF54C, \h97B4>>,
   <<\h1007, \h1034, \h8998, \h8020, \h0000, \h0000, \h0000, \h0000, \h0C0C, \hC00C, \h83EA, \h48FD>>,
   <<\h1007, \h1034, \hC898, \h0120, \h0000, \h0000, \h0000, \h0000, \h83BC, \h8EF3, \hA657, \h0183>>,
   <<\h1046, \h1034, \h8998, \h8020, \h0000, \h0000, \h0000, \h0000, \hDF72, \h5DCA, \hD94E, \hA2E9>>,
   <<\h1086, \h9115, \h1919, \h0101, \h0000, \h0000, \h0000, \h0000, \hE652, \hB53B, \h550B, \hE8B0>>,
   <<\h1086, \h9115, \h1958, \h0101, \h0000, \h0000, \h0000, \h0000, \hAF52, \h7120, \hC485, \hCBB0>>,
   <<\h5107, \hB015, \h1958, \h0101, \h0000, \h0000, \h0000, \h0000, \h0F04, \hCE39, \h3DB9, \h26D5>>,
   <<\h1007, \hB015, \h1919, \h0101, \h0000, \h0000, \h0000, \h0000, \hC9F0, \h0FFC, \h7407, \h9067>>,
   <<\h3107, \h9154, \h9808, \h0101, \h0000, \h0000, \h0000, \h0000, \h7CFD, \h82A5, \h9325, \h2B4E>>,
   <<\h3107, \h9194, \h9808, \h0101, \h0000, \h0000, \h0000, \h0000, \hCB49, \hA2F9, \hE913, \h63E3>>,
   <<\h1007, \h9115, \hB908, \h0140, \h0000, \h0000, \h0000, \h0000, \h00B5, \h88BE, \h70D2, \h3F56>>,
   <<\h3107, \h9115, \h9808, \h0140, \h0000, \h0000, \h0000, \h0000, \h406A, \h9A6A, \hB433, \h99AE>>,
   <<\h1007, \hD015, \h8998, \h0101, \h0000, \h0000, \h0000, \h0000, \h6CB7, \h7361, \h1DCA, \h9ADA>>,
   <<\h9107, \h9115, \h8998, \h0101, \h0000, \h0000, \h0000, \h0000, \h67FD, \h21C1, \h7DBB, \h5D70>>,
   <<\h9107, \hD015, \h8919, \h0101, \h0000, \h0000, \h0000, \h0000, \h9592, \hCB41, \h1043, \h0787>>,
   <<\h1007, \hD015, \h9898, \h0120, \h0000, \h0000, \h0000, \h0000, \hA6B7, \hFF68, \hA318, \hDDD3>>,
   <<\h1007, \h9404, \h9819, \h0101, \h0000, \h0000, \h0000, \h0000, \h4D10, \h2196, \hC914, \hCA16>>,
   <<\h0107, \h9104, \h9119, \h0401, \h0000, \h0000, \h0000, \h0000, \h2DFA, \h9F45, \h7359, \h4965>>,
   <<\h0107, \h9104, \h9119, \h0101, \h0000, \h0000, \h0000, \h0000, \hB466, \h0481, \h6C0E, \h0774>>,
   <<\h0107, \h9404, \h9119, \h0401, \h0000, \h0000, \h0000, \h0000, \h6E7E, \h6221, \hA4F3, \h4E87>>,
   <<\h1907, \h9210, \h981A, \h0101, \h0000, \h0000, \h0000, \h0000, \hAA85, \hE746, \h4323, \h3199>>,
   <<\h1007, \h9119, \h9819, \h0801, \h0000, \h0000, \h0000, \h0000, \h2E5A, \h19DB, \h4D19, \h62D6>>,
   <<\h1007, \h9119, \h981A, \h0801, \h0000, \h0000, \h0000, \h0000, \h23A8, \h66A8, \h09D3, \h0894>>,
   <<\h1007, \h9210, \h9819, \h0101, \h0000, \h0000, \h0000, \h0000, \hD812, \hD961, \hF017, \hD320>>,
   <<\h1007, \h9115, \h9819, \h010B, \h0000, \h0000, \h0000, \h0000, \h0556, \h0581, \h6E58, \h608F>>,
   <<\h1004, \h8015, \h9819, \h0101, \h0000, \h0000, \h0000, \h0000, \hABD8, \h8E8B, \h1B77, \h16F1>>,
   <<\h1004, \h8015, \h9819, \h0102, \h0000, \h0000, \h0000, \h0000, \h537A, \hC95B, \hE69D, \hA1E1>>,
   <<\h1004, \h8015, \h9819, \h0108, \h0000, \h0000, \h0000, \h0000, \hAED0, \hF6AE, \h3C25, \hCDD8>>,
   <<\h1002, \h9114, \h9810, \h0104, \h0000, \h0000, \h0000, \h0000, \hB3E3, \h5A5E, \hE53E, \h7B8D>>,
   <<\h1002, \h9115, \h9819, \h0104, \h0000, \h0000, \h0000, \h0000, \h61C7, \h9C71, \h921A, \h2EF8>>,
   <<\h1002, \h9115, \h9810, \h0201, \h0000, \h0000, \h0000, \h0000, \hE2F5, \h728F, \h0995, \h013C>>,
   <<\h1002, \h9116, \h9810, \h0101, \h0000, \h0000, \h0000, \h0000, \h1AEA, \hC39A, \h61F0, \hA464>>}

SBoxTest ==
  {<<\h7CA1, \h1045, \h4A1A, \h6E57, \h01A1, \hD6D0, \h3977, \h6742, \h690F, \h5B0D, \h9A26, \h939B>>,
   <<\h0131, \hD961, \h9DC1, \h376E, \h5CD5, \h4CA8, \h3DEF, \h57DA, \h7A38, \h9D10, \h354B, \hD271>>,
   <<\h07A1, \h133E, \h4A0B, \h2686, \h0248, \hD438, \h06F6, \h7172, \h868E, \hBB51, \hCAB4, \h599A>>,
   <<\h3849, \h674C, \h2602, \h319E, \h5145, \h4B58, \h2DDF, \h440A, \h7178, \h876E, \h01F1, \h9B2A>>,
   <<\h04B9, \h15BA, \h43FE, \hB5B6, \h42FD, \h4430, \h5957, \h7FA2, \hAF37, \hFB42, \h1F8C, \h4095>>,
   <<\h0113, \hB970, \hFD34, \hF2CE, \h059B, \h5E08, \h51CF, \h143A, \h86A5, \h60F1, \h0EC6, \hD85B>>,
   <<\h0170, \hF175, \h468F, \hB5E6, \h0756, \hD8E0, \h7747, \h61D2, \h0CD3, \hDA02, \h0021, \hDC09>>,
   <<\h4329, \h7FAD, \h38E3, \h73FE, \h7625, \h14B8, \h29BF, \h486A, \hEA67, \h6B2C, \hB7DB, \h2B7A>>,
   <<\h07A7, \h1370, \h45DA, \h2A16, \h3BDD, \h1190, \h4937, \h2802, \hDFD6, \h4A81, \h5CAF, \h1A0F>>,
   <<\h0468, \h9104, \hC2FD, \h3B2F, \h2695, \h5F68, \h35AF, \h609A, \h5C51, \h3C9C, \h4886, \hC088>>,
   <<\h37D0, \h6BB5, \h16CB, \h7546, \h164D, \h5E40, \h4F27, \h5232, \h0A2A, \hEEAE, \h3FF4, \hAB77>>,
   <<\h1F08, \h260D, \h1AC2, \h465E, \h6B05, \h6E18, \h759F, \h5CCA, \hEF1B, \hF03E, \h5DFA, \h575A>>,
   <<\h5840, \h2364, \h1ABA, \h6176, \h004B, \hD6EF, \h0917, \h6062, \h88BF, \h0DB6, \hD70D, \hEE56>>,
   <<\h0258, \h1616, \h4629, \hB007, \h480D, \h3900, \h6EE7, \h62F2, \hA1F9, \h9155, \h4102, \h0B56>>,
   <<\h4979, \h3EBC, \h79B3, \h258F, \h4375, \h40C8, \h698F, \h3CFA, \h6FBF, \h1CAF, \hCFFD, \h0556>>,
   <<\h4FB0, \h5E15, \h15AB, \h73A7, \h072D, \h43A0, \h7707, \h5292, \h2F22, \hE49B, \hAB7C, \hA1AC>>,
   <<\h49E9, \h5D6D, \h4CA2, \h29BF, \h02FE, \h5577, \h8117, \hF12A, \h5A6B, \h612C, \hC26C, \hCE4A>>,
   <<\h0183, \h10DC, \h409B, \h26D6, \h1D9D, \h5C50, \h18F7, \h28C2, \h5F4C, \h038E, \hD12B, \h2E41>>,
   <<\h1C58, \h7F1C, \h1392, \h4FEF, \h3055, \h3228, \h6D6F, \h295A, \h63FA, \hC0D0, \h34D9, \hF793>>}

Word(parts) ==
  [j \in 1..64 |-> (parts[((j - 1) \div 16) + 1] \div 2^(15 - ((j - 1) % 16))) % 2] \o <<>>

MCVectors ==
  {[key |-> Word(SubSeq(a, 1, 4)), plain |-> Word(SubSeq(a, 5, 8)), cipher |-> Word(SubSeq(a, 9, 12))] :
     a \in InitialPermutationTest \cup KeyTest \cup PTest \cup SBoxTest}
=============================================================================
