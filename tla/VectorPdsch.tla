----------------------------- MODULE VectorPdsch -----------------------------
(* The vector tests of the PDSCH and its signals, of LDPC and of transport blocks. *)
EXTENDS VectorSteps

(* pdsch_processor_vectortest.cpp *)

GenericPdschEncoder ==
    Create(<<"generic_ldpc_encoder_factory", "generic_rate_matcher_factory",
             "segmenter_factory">>, {"dmrs_pdsch_factory"}, {}, "aborted")
    \o OrNull(<<"pdsch_encoder_factory">>, {"segmenter_factory"})

HwPdschEncoder(after) == Device("bbdev_accelerator", {after})

Acc100PdschEncoder ==
    OrNull(<<"segmenter_factory">>, {"dmrs_pdsch_factory"})
    \o HwPdschEncoder("segmenter_factory")
    \o OrNull(<<"hw_encoder_factory", "pdsch_encoder_factory">>, {"bbdev_accelerator"})

GenericPdsch(encoder) ==
    encoder \o Create(<<"pdsch_proc_factory">>, {"pdsch_encoder_factory"},
                      {"ptrs_pdsch_factory"}, "null")

FlexiblePdsch(blockProcessor) ==
    blockProcessor \o Create(<<"pdsch_proc_factory">>, {"block_processor_factory"},
                             {"ptrs_pdsch_factory"}, "null")

BlockProcessor == OrNull(<<"block_processor_factory">>, {"dmrs_pdsch_factory"})

Acc100BlockProcessor ==
    HwPdschEncoder("dmrs_pdsch_factory")
    \o OrNull(<<"hw_encoder_factory", "block_processor_factory">>, {"bbdev_accelerator"})

\* After the PT-RS factory the code checks the DM-RS factory again.
PdschProcessorFactory(processor) ==
    OrNull(<<"crc_calc_factory", "ldpc_encoder_factory", "ldpc_rate_matcher_factory",
             "ldpc_segmenter_tx_factory", "modulator_factory", "prg_factory",
             "precoding_factory", "rg_mapper_factory", "pdsch_modulator_factory",
             "dmrs_pdsch_factory">>, {})
    \o OrNull(<<"ptrs_pdsch_factory">>, {"dmrs_pdsch_factory"})
    \o processor

PdschProcessorSetUp(processor, hardware) ==
    PdschProcessorFactory(processor)
    \o (IF hardware THEN SkipWithoutDevice ELSE <<>>)
    \o Check({"pdsch_proc_factory"})
    \o Asserted(<<"pdsch_proc", "pdu_validator">>)

\* For mutants: nobody waits, or before the process starts.
PdschProcessorVectortestAtOnce ==
    Valid("transport block") \o Valid("config")
    \o Start({"pdsch_proc"}, {"grid"}) \o Expect({"grid"})
PdschProcessorVectortestTooSoon ==
    Valid("transport block") \o Valid("config")
    \o Wait \o Start({"pdsch_proc"}, {"grid"}) \o Expect({"grid"})

\* The processor runs in the tasks of a pool of workers.
PdschProcessorVectortest ==
    Check({"pdsch_proc", "pdu_validator"})
    \o Valid("transport block") \o Valid("config")
    \o Start({"pdsch_proc"}, {"grid"}) \o Wait \o Expect({"grid"})

PdschProcessor ==
    File(<<>>,
         [i \in 1..4 |->
            LET processor == <<GenericPdsch(GenericPdschEncoder), GenericPdsch(Acc100PdschEncoder),
                               FlexiblePdsch(BlockProcessor), FlexiblePdsch(Acc100BlockProcessor)>>[i]
            IN  PdschProcessorSetUp(processor, i \in {2, 4}) \o PdschProcessorVectortest],
         {"ptrs_pdsch_factory"}, {})

(* pdsch_encoder_vectortest.cpp: one main function. *)

GenericEncoder ==
    Fatal(<<"crc_calculator_factory", "ldpc_encoder_factory", "ldpc_rate_matcher_factory",
            "segmenter_factory">>)

Acc100Encoder ==
    Fatal(<<"crc_calculator_factory", "segmenter_factory", "dpdk_interface",
            "bbdev_accelerator", "hw_encoder_factory">>)

\* The buffer is used a second time.
PdschEncoderCase ==
    ValidFatal("codeword length")
    \o Run({"pdsch_encoder"}, {"codeword"}) \o ExpectFatal({"codeword"})
    \o Run({"pdsch_encoder"}, {"codeword"}) \o ExpectFatal({"codeword"})

PdschEncoderMain(factory) ==
    File(factory \o Fatal(<<"pdsch_enc_factory", "pdsch_encoder">>), <<PdschEncoderCase>>, {}, {})

(* pdsch_modulator_vectortest.cpp: the check of the modulator's factory names another. *)

PdschModulatorSetUpTestSuite ==
    Fatal(<<"modulator_factory", "prg_factory", "precoding_factory", "rg_mapper_factory">>)
    \o Unchecked(<<"pdsch_factory">>, {})
    \o Create(<<"pdsch">>, {}, {"pdsch_factory"}, "aborted")

PdschModulatorVectorTest ==
    Valid("layers") \o Valid("modulations")
    \o Run({"pdsch"}, {"grid"}) \o Expect({"grid"})

PdschModulator ==
    File(PdschModulatorSetUpTestSuite, <<PdschModulatorVectorTest>>, {"pdsch_factory"}, {})

(* ldpc_enc_dec_vectortest.cpp *)

LdpcFactories == {"enc_factory_generic", "enc_factory_avx2", "enc_factory_neon",
                  "dec_factory_generic", "dec_factory_avx2", "dec_factory_avx512",
                  "dec_factory_neon"}

LDPCEncDecSetUpTestSuite == Asserted(SetToSeq(LdpcFactories))

\* Mutant: the factories are not checked again.
LDPCEncDecSetUpOnce ==
    AssertedFrom(<<"encoder_test", "decoder_test">>, LdpcFactories)
    \o Valid("messages") \o Valid("codeblocks")

\* "ASSERT_* is not fatal in SetUpTestSuite in old googletest releases."
LDPCEncDecSetUp ==
    Check(LdpcFactories)
    \o AssertedFrom(<<"encoder_test", "decoder_test">>, LdpcFactories)
    \o Valid("messages") \o Valid("codeblocks")

\* Two shortened codeblocks.
LDPCEncTest ==
    Run({"encoder_test"}, {"encoded"}) \o Expect({"encoded"})
    \o Run({"encoder_test"}, {"encoded"}) \o Expect({"encoded"})

\* Two segments of an encoded block.
LDPCEncSegmentedReadTest ==
    Run({"encoder_test"}, {"encoded", "rest"}) \o Expect({"encoded"}) \o Expect({"rest"})

\* What decode returns is dropped.
Decode == Run({"decoder_test"}, {"discarded n_iters", "decoded"})

LDPCDecTest == Decode \o Expect({"decoded"}) \o Decode \o Expect({"decoded"})

LDPCDecTestZeroLLR ==
    Run({"decoder_test"}, {"n_iters", "decoded"}) \o Expect({"n_iters"}) \o Expect({"decoded"})

\* "Check that a codeblock ... returns message of all ones and an empty output": the
\* message is checked, and what is returned is not.
LDPCDecTestAlmostZeroLLR == Decode \o Expect({"decoded"})

LdpcEncDec ==
    File(LDPCEncDecSetUpTestSuite,
         <<LDPCEncDecSetUp \o LDPCEncTest, LDPCEncDecSetUp \o LDPCEncSegmentedReadTest,
           LDPCEncDecSetUp \o LDPCDecTest, LDPCEncDecSetUp \o LDPCDecTestZeroLLR,
           LDPCEncDecSetUp \o LDPCDecTestAlmostZeroLLR>>, {}, {"discarded n_iters"})

(* ldpc_rm_vectortest.cpp: here the factory is not checked again. *)

LDPCRateMatchingSetUp == AssertedFrom(<<"matcher">>, {"rate_matcher_factory"})

LDPCRateMatching ==
    Run({"matcher"}, {"matched"}) \o Valid("rm_length") \o ExpectOnly({"matched"})
    \o Asserted(<<"rate_dematcher_factory">>)

\* The implementation of the dematcher is supported by the processor, or must be null.
\* Of its soft bits only the signs are compared, by matching them again.
LDPCRateDematching ==
    Asserted(<<"dematcher">>)
    \o Run({"dematcher"}, {"dematched"})
    \o Run({"matcher"}, {"matched2"}) \o ExpectOnly({"matched2"})
LDPCUnsupported == Valid("no dematcher") \o SkipAlways

LdpcRateMatcher ==
    File(Asserted(<<"rate_matcher_factory">>),
         <<LDPCRateMatchingSetUp \o LDPCRateMatching \o LDPCRateDematching,
           LDPCRateMatchingSetUp \o LDPCRateMatching \o LDPCUnsupported>>,
         {"rate_matcher_factory"}, {"dematched"})

(* ldpc_segmenter_vectortest.cpp: likewise, and all it expects is not fatal. *)

LDPCSegmenterSetUp ==
    AssertedFrom(<<"segmenter_tx">>, {"segmenter_tx_factory"})
    \o AssertedFrom(<<"segmenter_rx">>, {"segmenter_rx_factory"})

\* The codeblocks of the receiver are compared one by one, and not counted.
LDPCSegmenterTest ==
    Run({"segmenter_tx"}, {"number of segments", "segments"})
    \o ExpectOnly({"number of segments"}) \o ExpectOnly({"segments"})
    \o Run({"segmenter_rx"}, {"number of codeblocks", "codeblocks"}) \o ExpectOnly({"codeblocks"})

LdpcSegmenter ==
    File(Asserted(<<"crc_factory", "segmenter_tx_factory", "segmenter_rx_factory">>),
         <<LDPCSegmenterSetUp \o LDPCSegmenterTest>>,
         {"segmenter_tx_factory", "segmenter_rx_factory"}, {"number of codeblocks"})

(* Signals of the resource grid. *)

\* ptrs_pdsch_generator_vectortest.cpp
PtrsPdschGenerator ==
    File(Fatal(<<"prg_factory", "precoding_factory", "rg_mapper_factory", "ptrs_factory",
                 "generator">>),
         <<Run({"generator"}, {"grid"}) \o Expect({"grid"})>>, {}, {})

\* dmrs_pdsch_processor_vectortest.cpp: the suite's factory is not checked again.
DmrsPdschProcessor ==
    File(Asserted(<<"prg_factory", "precoding_factory", "rg_mapper_factory", "dmrs_pdsch_factory">>),
         <<AssertedFrom(<<"dmrs_pdsch">>, {"dmrs_pdsch_factory"}) \o Valid("rb_mask")
           \o Run({"dmrs_pdsch"}, {"grid"}) \o Expect({"grid"})>>, {"dmrs_pdsch_factory"}, {})

\* nzp_csi_rs_generator_vectortest.cpp
NzpCsiRsGenerator ==
    File(Asserted(<<"prg_factory", "precoding_factory", "rg_mapper_factory", "factory">>)
         \o Unchecked(<<"generator", "validator">>, {}),
         <<Check({"generator", "validator"}) \o Valid("config")
           \o Run({"generator"}, {"grid"}) \o Expect({"grid"})>>, {}, {})

\* prs_generator_vectortest.cpp: what assert_entries returns is not read.
PrsGenerator ==
    File(Fatal(<<"pseudo_random_gen_factory", "precoding_factory", "prs_gen_factory",
                 "generator", "validator">>),
         <<Valid("config") \o Run({"generator"}, {"grid"})>>, {}, {"grid"})

\* modulation_mapper_vectortest.cpp: an assertion in assert_symbols ends that function,
\* and not the test.
ModulationMapper ==
    File(Asserted(<<"factory", "modulator">>),
         <<Check({"factory", "modulator"})
           \o Run({"modulator"}, {"symbols_cf"}) \o ExpectOnly({"symbols_cf"})
           \o Run({"modulator"}, {"symbols_ci8"}) \o ExpectOnly({"symbols_ci8"})>>, {}, {})

\* tbs_calculator_vectortest.cpp
TbsCalculator == File(<<>>, <<Run({}, {"tbs"}) \o Expect({"tbs"})>>, {}, {})
=============================================================================
