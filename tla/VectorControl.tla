---------------------------- MODULE VectorControl ----------------------------
(* The vector tests of the control channels, of the SS/PBCH block and of the PRACH. *)
EXTENDS VectorSteps

(* PDCCH. *)

PdcchEncoder ==
    File(<<>>, <<UnitTest(<<"crc_calc_factory", "polar_factory", "pdcch_enc_factory",
                            "pdcch_encoder">>, {"encoded"})>>, {}, {})

\* The third check of the modulator's factories names another factory.
PdcchModulator ==
    File(<<>>,
         <<Asserted(<<"modulator_factory", "prg_factory", "precoding_factory",
                      "rg_mapper_factory">>)
           \o Unchecked(<<"pdcch_factory">>, {}) \o AssertedFrom(<<"pdcch">>, {"pdcch_factory"})
           \o Valid("rb_mask") \o Run({"pdcch"}, {"grid"}) \o Expect({"grid"})>>,
         {"pdcch_factory"}, {})

DmrsPdcchProcessor ==
    File(<<>>,
         <<Asserted(<<"prg_factory", "precoding_factory", "rg_mapper_factory",
                      "dmrs_pdcch_factory">>)
           \o Unchecked(<<"dmrs_pdcch">>, {}) \o Run({"dmrs_pdcch"}, {"grid"}) \o Expect({"grid"})>>,
         {"dmrs_pdcch"}, {})

PdcchProcessorSetUpTestSuite ==
    Asserted(<<"crc_factory", "polar_factory", "encoder_factory", "mod_factory", "prg_factory",
               "precoding_factory", "rg_mapper_factory", "modulator_factory",
               "dmrs_pdcch_factory", "factory">>)
    \o Unchecked(<<"processor", "validator">>, {})

PdcchProcessorFromVector ==
    Check({"processor", "validator"}) \o Valid("config")
    \o Run({"processor"}, {"grid"}) \o Expect({"grid"})

PdcchProcessor == File(PdcchProcessorSetUpTestSuite, <<PdcchProcessorFromVector>>, {}, {})

PdcchCandidates == File(<<>>, <<Run({}, {"candidates"}) \o Expect({"candidates"})>>, {}, {})

(* SS/PBCH block. *)

DmrsPbchProcessor ==
    File(<<>>, <<UnitTest(<<"prg_factory", "dmrs_pbch_factory", "dmrs_pbch">>, {"grid"})>>, {}, {})

PbchEncoder ==
    File(<<>>, <<UnitTest(<<"crc_calc_factory", "prg_factory", "polar_factory",
                            "pbch_enc_factory", "pbch">>, {"encoded"})>>, {}, {})

\* Here, too, the factory that was made last is not the one that is checked.
PbchModulator ==
    File(<<>>,
         <<Asserted(<<"modulator_factory", "prg_factory">>) \o Unchecked(<<"pbch_factory">>, {})
           \o AssertedFrom(<<"pbch">>, {"pbch_factory"})
           \o Run({"pbch"}, {"grid"}) \o Expect({"grid"})>>, {"pbch_factory"}, {})

SSBProcessor ==
    File(<<>>,
         <<Asserted(<<"crc_calc_factory", "modulator_factory", "prg_factory", "polar_factory">>)
           \o Unchecked(<<"pbch_enc_factory">>, {})
           \o Asserted(<<"pbch_mod_factory", "dmrs_pbch_proc_factory", "pss_proc_factory",
                         "sss_proc_factory">>)
           \o AssertedFrom(<<"ssb_factory", "ssb">>, {"pbch_enc_factory"})
           \o Run({"ssb"}, {"grid"}) \o Expect({"grid"})>>, {"pbch_enc_factory"}, {})

(* PUCCH processor, one file per format.  The fixture belongs to OCUDU. *)

PucchProcessorTestFixture == Unchecked(<<"processor", "validator">>, {})

PucchProcess(results) == Valid("config") \o Run({"processor", "validator"}, results)

\* A grid of zeros: the bits of the message, and the metric, are not compared.
UnreadOfZeros == {"message of zeros", "metric of zeros"}
FromVectorZeros ==
    PucchProcess({"status", "csi"} \cup UnreadOfZeros) \o Expect({"status"}) \o Expect({"csi"})

PucchFormat0FromVector ==
    PucchProcess({"status", "epre and sinr", "harq_ack", "sr", "no csi bits",
                  "rsrp", "detection metric"})
    \o Expect({"epre and sinr"}) \o Expect({"status"}) \o Expect({"harq_ack"}) \o Expect({"sr"})
    \o Expect({"no csi bits"})

PucchFormat0FalseAlarm == PucchProcess({"pfa"}) \o Expect({"pfa"})

PucchFormat0 ==
    File(PucchProcessorTestFixture,
         <<PucchFormat0FromVector, FromVectorZeros, PucchFormat0FalseAlarm>>,
         {"processor", "validator"}, {"rsrp", "detection metric"} \cup UnreadOfZeros)

\* A batch of multiplexed PUCCHs.  That there is an SINR is checked, and not its value.
\* Of those without expected bits the status is only counted: one may be wrong.
PucchFormat1Batch ==
    Valid("ports")
    \o PucchProcess({"results", "csi", "detection_metric", "status", "bits", "false alarms",
                     "sinr", "one status without bits"})
    \o Expect({"results"}) \o Expect({"csi"})

\* Mutant: the metric of a result is not compared.
PucchFormat1FromVectorNoMetric ==
    PucchFormat1Batch \o Expect({"status"}) \o Expect({"bits"}) \o Expect({"false alarms"})

\* A wrong metric does not end the test.
PucchFormat1FromVector ==
    PucchFormat1Batch \o ExpectOnly({"detection_metric"})
    \o Expect({"status"}) \o Expect({"bits"}) \o Expect({"false alarms"})

PucchFormat1 ==
    File(PucchProcessorTestFixture, <<PucchFormat1FromVector, FromVectorZeros>>,
         {"processor", "validator"}, {"sinr", "one status without bits"} \cup UnreadOfZeros)

\* Formats 2, 3 and 4: neither the channel state nor the metric is compared, but for
\* a grid of zeros.
UnreadOfVector == {"channel state", "detection metric"}

\* Formats 2 and 4.
PucchUCIFromVector ==
    PucchProcess({"status", "harq_ack", "sr", "csi_part1", "csi_part2"} \cup UnreadOfVector)
    \o Expect({"status"}) \o Expect({"harq_ack"}) \o Expect({"sr"})
    \o Expect({"csi_part1"}) \o Expect({"csi_part2"})

PucchUCIFormat ==
    File(PucchProcessorTestFixture, <<PucchUCIFromVector, FromVectorZeros>>,
         {"processor", "validator"}, UnreadOfVector \cup UnreadOfZeros)

\* The sizes of the parts and the payload as a whole.
PucchFormat3FromVector ==
    PucchProcess({"status", "sizes", "payload"} \cup UnreadOfVector)
    \o Expect({"status"}) \o Expect({"sizes"}) \o Expect({"payload"})

PucchFormat3 ==
    File(PucchProcessorTestFixture, <<PucchFormat3FromVector, FromVectorZeros>>,
         {"processor", "validator"}, UnreadOfVector \cup UnreadOfZeros)

(* PUCCH demodulator, formats 2, 3 and 4. *)

PucchDemodulatorSetUpTestSuite ==
    Asserted(<<"equalizer_factory", "demod_factory", "prg_factory", "dft_factory",
               "precoding_factory", "factory", "demodulator">>)

PucchDemodulatorSetUp == Check({"demodulator"}) \o Valid("grid")

PucchDemodulatorFromVector == Run({"demodulator"}, {"llrs"}) \o Expect({"llrs"})

PucchDemodulator ==
    File(PucchDemodulatorSetUpTestSuite, <<PucchDemodulatorSetUp \o PucchDemodulatorFromVector>>,
         {}, {})

(* Uplink control information. *)

UciDecoder ==
    File(Asserted(<<"short_block_factory", "polar_decoder_factory", "crc_calc_factory",
                    "uci_factory">>),
         <<Check({"uci_factory"}) \o Asserted(<<"decoder">>) \o Valid("sizes")
           \o Run({"decoder"}, {"status", "message"})
           \o Expect({"status"}) \o Expect({"message"})>>, {}, {})

ShortBlockEncoder ==
    File(Asserted(<<"test_encoder">>),
         <<Check({"test_encoder"}) \o Valid("sizes")
           \o Run({"test_encoder"}, {"codeblocks"}) \o Expect({"codeblocks"})>>, {}, {})

ShortBlockDetectorSetUp == Check({"factory", "test_detector"})

\* A block of several is detected; the messages are compared at the end.
ShortBlockDetectorTest ==
    Valid("sizes") \o Run({"test_detector"}, {"detected", "messages"})
    \o Expect({"detected"}) \o Expect({"messages"})

\* Soft bits that are zero are not detected, and decoded as ones.
ShortBlockDetectorZeroLLR ==
    Run({"test_detector"}, {"not detected", "ones"}) \o Expect({"not detected"}) \o Expect({"ones"})

ShortBlockDetector ==
    File(Asserted(<<"factory", "test_detector">>),
         <<ShortBlockDetectorSetUp \o ShortBlockDetectorTest,
           ShortBlockDetectorSetUp \o ShortBlockDetectorZeroLLR>>, {}, {})

(* PRACH. *)

PrachDetectorSetUpTestSuite ==
    Asserted(<<"dft_factory", "generator_factory", "detector_factory", "detector", "validator">>)

\* Configurations that are not valid are skipped ("todo(david): this should be an
\* assertion!"), and after the detection those that are not stable.  Of the preambles
\* that were detected the test looks for the one that was sent: others may be there.
PrachDetectorFromVector ==
    SkipSomeCases \o Valid("buffer")
    \o Run({"detector"}, {"preamble", "time_advance", "detection_metric", "rssi_dB",
                          "preamble_power_dB", "other preambles", "time_resolution"})
    \o SkipSomeCases
    \o Expect({"preamble"}) \o Expect({"time_advance"}) \o Expect({"detection_metric"})
    \o Expect({"rssi_dB"}) \o Expect({"preamble_power_dB"})

PrachDetector ==
    File(PrachDetectorSetUpTestSuite,
         <<Check({"detector", "validator"}) \o PrachDetectorFromVector>>, {},
         {"other preambles", "time_resolution"})

PrachGenerator ==
    File(<<>>, <<Asserted(<<"factory", "generator">>) \o SkipSomeCases
                 \o Run({"generator"}, {"preamble"}) \o Expect({"preamble"})>>, {}, {})
=============================================================================
